---- MODULE Spec2Model ----
(***************************************************************************)
(* Model of the numeric core of virtual-quantum-lab:                       *)
(*   src/src/utils/collisionDetection.js  (collision detection/response)   *)
(*   src/src/utils/physicsFormulas.js     (QuantumFormulas)                *)
(*   ElectricFieldVisualization           (calculateFieldLine, seeds)      *)
(*   WaveInterferenceVisualization.jsx    (calculateInterference)          *)
(*                                                                         *)
(* JavaScript numbers are modelled exactly, as real numbers of the form    *)
(* (n/d)*sqrt(s) (n, d, s integers, s square-free), extended with the      *)
(* IEEE values +Infinity (1/0), -Infinity (-1/0) and NaN (0/0).  Rounding  *)
(* of floating point arithmetic and the sign of zero are not modelled.     *)
(***************************************************************************)
EXTENDS Integers, Sequences, FiniteSets, TLC

VARIABLES
    objects,      \* the Body records handed to the collision functions
    pc,           \* position of checkAllCollisions: "idle", "loop", "done"
    i, j,         \* loop indices of checkAllCollisions (1-based)
    collisions,   \* the array checkAllCollisions builds
    examined,     \* history: the pairs the inner loop body has visited
    call,         \* the last direct checkCollision / resolveCollision call
    tunnel,       \* the last tunneling computation
    fieldLine,    \* the running or returned calculateFieldLine call
    wave,         \* the last calculateInterference call
    spacetime,    \* the Spacetime Diagrams page and its last gamma computation
    trails,       \* the point lists of MotionTrail and ProjectileVisualization
    fieldGroup,   \* the field-line group of ElectricFieldVisualization
    coil,         \* the animated state of FaradaysLawVisualization
    qrng          \* the state of the QRNG page and its fetches in flight

vars == <<objects, pc, i, j, collisions, examined, call, tunnel, fieldLine, wave,
          spacetime, trails, fieldGroup, coil, qrng>>

----------------------------------------------------------------------------
(* Numbers *)

Abs(x) == IF x < 0 THEN -x ELSE x

Sgn(x) == IF x > 0 THEN 1 ELSE IF x < 0 THEN -1 ELSE 0

RECURSIVE GCD(_, _)
GCD(a, b) == IF b = 0 THEN a ELSE GCD(b, a % b)

\* the largest r in lo..hi with r*r <= n (lo*lo <= n)
RECURSIVE ISqrtIn(_, _, _)
ISqrtIn(n, lo, hi) ==
    IF lo >= hi THEN lo
    ELSE LET mid == (lo + hi + 1) \div 2
         IN  IF mid <= n \div mid THEN ISqrtIn(n, mid, hi) ELSE ISqrtIn(n, lo, mid - 1)

ISqrt(n) == ISqrtIn(n, 0, IF n < 46340 THEN n ELSE 46340)

\* a number whose square is at least s
RootBound(s) ==
    IF s <= 100 THEN 10 ELSE IF s <= 10000 THEN 100
    ELSE IF s <= 1000000 THEN 1000 ELSE 46340

\* the numbers whose square divides v
SquareRoots(v) == {r \in 1..RootBound(v) : v % (r * r) = 0}

\* the largest element of a non-empty set of numbers
MaxOf(set) == CHOOSE r \in set : \A q \in set : q <= r

\* the largest r with r*r dividing s
SquarePart(s) ==
    CHOOSE r \in {MaxOf(roots) : roots \in {SquareRoots(v) : v \in {s}}} : TRUE

\* the number (n/d)*sqrt(s) in canonical form; d = 0 gives Infinity or NaN
Num(n, d, s) ==
    IF d = 0 THEN [n |-> Sgn(n), d |-> 0, s |-> 1]
    ELSE IF n = 0 \/ s = 0 THEN [n |-> 0, d |-> 1, s |-> 1]
    ELSE LET k  == SquarePart(s)
             nn == n * k * Sgn(d)
             dd == Abs(d)
             g  == GCD(Abs(nn), dd)
         IN  [n |-> nn \div g, d |-> dd \div g, s |-> s \div (k * k)]

Int2Num(n) == Num(n, 1, 1)

Rat(n, d) == Num(n, d, 1)

Zero == Int2Num(0)

One == Int2Num(1)

NaN == [n |-> 0, d |-> 0, s |-> 1]

\* a sum of two finite terms with different radicals is kept as the pair
IsSum(x) == "a" \in DOMAIN x

IsNaN(x) == ~IsSum(x) /\ x.d = 0 /\ x.n = 0

IsFinite(x) == IsSum(x) \/ x.d # 0

NNeg(x) ==
    IF IsSum(x)
    THEN [a |-> [n |-> -x.a.n, d |-> x.a.d, s |-> x.a.s],
          b |-> [n |-> -x.b.n, d |-> x.b.d, s |-> x.b.s]]
    ELSE [n |-> -x.n, d |-> x.d, s |-> x.s]

NMul(x, y) == Num(x.n * y.n, x.d * y.d, x.s * y.s)

\* 1/x; 1/0 is +Infinity
NInv(x) == Num(x.d * (IF x.n < 0 THEN -1 ELSE 1), Abs(x.n) * x.s, x.s)

NDiv(x, y) == NMul(x, NInv(y))

NAdd(x, y) ==
    IF IsSum(x) \/ IsSum(y)
    THEN \* only 0 + (a + b) is ever formed (Math.max(0, a - b))
         IF x = Zero THEN y ELSE IF y = Zero THEN x ELSE CHOOSE v \in {} : TRUE
    ELSE IF x.d = 0 \/ y.d = 0
    THEN IF IsNaN(x) \/ IsNaN(y) THEN NaN
         ELSE IF x.d = 0 /\ y.d = 0 THEN (IF x.n = y.n THEN x ELSE NaN)
         ELSE IF x.d = 0 THEN x ELSE y
    ELSE IF x.n = 0 THEN y
    ELSE IF y.n = 0 THEN x
    ELSE IF x.s = y.s
    THEN LET g == GCD(x.d, y.d)
         IN  Num(x.n * (y.d \div g) + y.n * (x.d \div g), (x.d \div g) * y.d, x.s)
    ELSE [a |-> x, b |-> y]

NSub(x, y) == NAdd(x, NNeg(y))

\* the sign of a number (0 for NaN); for a sum, by comparing the squares
NSign(x) ==
    IF IsSum(x)
    THEN LET sa == Sgn(x.a.n)
             sb == Sgn(x.b.n)
             \* a^2 > b^2, with a^2 = n^2*s/d^2
             aBigger == x.a.n * x.a.n * x.a.s * x.b.d * x.b.d
                          > x.b.n * x.b.n * x.b.s * x.a.d * x.a.d
         IN  IF sa = sb THEN sa ELSE IF aBigger THEN sa ELSE sb
    ELSE Sgn(x.n)

\* x < y, x > y, x >= y as JavaScript compares numbers (false with NaN)
NLt(x, y) == ~IsNaN(x) /\ ~IsNaN(y) /\ x # y /\ NSign(NSub(x, y)) < 0

NGt(x, y) == NLt(y, x)

NGe(x, y) == ~IsNaN(x) /\ ~IsNaN(y) /\ (x = y \/ NLt(y, x))

\* Math.max, Math.min (NaN if either argument is NaN)
NMax(x, y) == IF IsNaN(x) \/ IsNaN(y) THEN NaN ELSE IF NLt(x, y) THEN y ELSE x

NMin(x, y) == IF IsNaN(x) \/ IsNaN(y) THEN NaN ELSE IF NLt(y, x) THEN y ELSE x

\* Math.sqrt of a rational: a/b for the perfect square a^2/b^2, sqrt(n)/b
\* for n/b^2, otherwise sqrt(n/d) = sqrt(n*d)/d; NaN below zero
NSqrt(x) ==
    IF IsNaN(x) \/ x.n < 0 THEN NaN
    ELSE IF x.d = 0 THEN x
    ELSE LET a == ISqrt(x.n)
             b == ISqrt(x.d)
         IN  IF a * a = x.n /\ b * b = x.d THEN Num(a, b, 1)
             ELSE IF b * b = x.d THEN Num(1, b, x.n)
             ELSE Num(1, x.d, x.n * x.d)

\* x || dflt: 0 and NaN (and a missing field, modelled as 0) are falsy
OrDefault(x, dflt) == IF x = Zero \/ IsNaN(x) THEN dflt ELSE x

----------------------------------------------------------------------------
(* Bodies *)

Vec(x, y, z) == [x |-> x, y |-> y, z |-> z]

IVec(x, y, z) == Vec(Int2Num(x), Int2Num(y), Int2Num(z))

ZeroVec == IVec(0, 0, 0)

\* a Body without a size field
NoSize == [missing |-> TRUE]

Size(w, h, d) == [width |-> w, height |-> h, depth |-> d]

\* a Body; a missing shape is "none", missing numeric fields are 0,
\* a missing collisionEnabled is TRUE (only === false disables)
Body(shape, position, velocity, mass, restitution, radius, size, enabled) ==
    [shape |-> shape, position |-> position, velocity |-> velocity,
     mass |-> mass, restitution |-> restitution, radius |-> radius,
     size |-> size, collisionEnabled |-> enabled]

DefaultRadius == Rat(1, 2)

DefaultRestitution == Rat(4, 5)

DefaultMass == One

DefaultSize == Size(One, One, One)

----------------------------------------------------------------------------
(* collisionDetection.js *)

\* circleNormal with a zero vector for coincident centres
circleNormalZeroFallback(dx, dy, dz, distance) ==
    IF NGt(distance, Zero)
    THEN Vec(NDiv(dx, distance), NDiv(dy, distance), NDiv(dz, distance))
    ELSE IVec(0, 0, 0)

\* distance > 0 ? { dx / distance, ... } : { x: 1, y: 0, z: 0 }
circleNormal(dx, dy, dz, distance) ==
    IF NGt(distance, Zero)
    THEN Vec(NDiv(dx, distance), NDiv(dy, distance), NDiv(dz, distance))
    ELSE IVec(1, 0, 0)

checkCircleCollision(obj1, obj2) ==
    LET dx == NSub(obj2.position.x, obj1.position.x)
        dy == NSub(obj2.position.y, obj1.position.y)
        dz == NSub(OrDefault(obj2.position.z, Zero), OrDefault(obj1.position.z, Zero))
        distance == NSqrt(NAdd(NAdd(NMul(dx, dx), NMul(dy, dy)), NMul(dz, dz)))
        minDistance == NAdd(OrDefault(obj1.radius, DefaultRadius),
                            OrDefault(obj2.radius, DefaultRadius))
    IN  [isColliding |-> NLt(distance, minDistance),
         distance    |-> distance,
         minDistance |-> minDistance,
         normal      |-> circleNormal(dx, dy, dz, distance),
         overlap     |-> NMax(Zero, NSub(minDistance, distance))]

\* checkBoxCollision testing the x and y axes only
checkBoxCollisionFlat(obj1, obj2) ==
    LET size1 == IF obj1.size = NoSize THEN DefaultSize ELSE obj1.size
        size2 == IF obj2.size = NoSize THEN DefaultSize ELSE obj2.size
    IN  /\ NLt(obj1.position.x, NAdd(obj2.position.x, size2.width))
        /\ NGt(NAdd(obj1.position.x, size1.width), obj2.position.x)
        /\ NLt(obj1.position.y, NAdd(obj2.position.y, size2.height))
        /\ NGt(NAdd(obj1.position.y, size1.height), obj2.position.y)

checkBoxCollision(obj1, obj2) ==
    LET size1 == IF obj1.size = NoSize THEN DefaultSize ELSE obj1.size
        size2 == IF obj2.size = NoSize THEN DefaultSize ELSE obj2.size
        z1    == OrDefault(obj1.position.z, Zero)
        z2    == OrDefault(obj2.position.z, Zero)
    IN  /\ NLt(obj1.position.x, NAdd(obj2.position.x, size2.width))
        /\ NGt(NAdd(obj1.position.x, size1.width), obj2.position.x)
        /\ NLt(obj1.position.y, NAdd(obj2.position.y, size2.height))
        /\ NGt(NAdd(obj1.position.y, size1.height), obj2.position.y)
        /\ NLt(z1, NAdd(z2, OrDefault(size2.depth, One)))
        /\ NGt(NAdd(z1, OrDefault(size1.depth, One)), z2)

\* obj.shape || 'circle'
ShapeOf(obj) == IF obj.shape = "none" THEN "circle" ELSE obj.shape

\* checkCollision taking obj1 for the circle and obj2 for the box of a mixed
\* pair
checkCollisionFirstIsCircle(obj1, obj2) ==
    LET shape1 == ShapeOf(obj1)
        shape2 == ShapeOf(obj2)
    IN  IF shape1 = "circle" /\ shape2 = "circle"
        THEN checkCircleCollision(obj1, obj2)
        ELSE IF shape1 = "box" /\ shape2 = "box"
        THEN [isColliding |-> checkBoxCollision(obj1, obj2),
              distance    |-> Zero,
              normal      |-> ZeroVec,
              overlap     |-> Zero]
        ELSE LET circle == obj1
                 box    == obj2
                 size   == IF box.size = NoSize THEN DefaultSize ELSE box.size
                 closestX == NMax(box.position.x,
                                  NMin(circle.position.x, NAdd(box.position.x, size.width)))
                 closestY == NMax(box.position.y,
                                  NMin(circle.position.y, NAdd(box.position.y, size.height)))
                 dx == NSub(circle.position.x, closestX)
                 dy == NSub(circle.position.y, closestY)
                 distance == NSqrt(NAdd(NMul(dx, dx), NMul(dy, dy)))
                 radius == OrDefault(circle.radius, DefaultRadius)
             IN  [isColliding |-> NLt(distance, radius),
                  distance    |-> distance,
                  normal      |-> IF NGt(distance, Zero)
                                  THEN Vec(NDiv(dx, distance), NDiv(dy, distance), Zero)
                                  ELSE IVec(1, 0, 0),
                  overlap     |-> NMax(Zero, NSub(radius, distance))]

checkCollision(obj1, obj2) ==
    LET shape1 == ShapeOf(obj1)
        shape2 == ShapeOf(obj2)
    IN  IF shape1 = "circle" /\ shape2 = "circle"
        THEN checkCircleCollision(obj1, obj2)
        ELSE IF shape1 = "box" /\ shape2 = "box"
        THEN [isColliding |-> checkBoxCollision(obj1, obj2),
              distance    |-> Zero,
              normal      |-> ZeroVec,
              overlap     |-> Zero]
        ELSE LET circle == IF shape1 = "circle" THEN obj1 ELSE obj2
                 box    == IF shape1 = "box" THEN obj1 ELSE obj2
                 size   == IF box.size = NoSize THEN DefaultSize ELSE box.size
                 closestX == NMax(box.position.x,
                                  NMin(circle.position.x, NAdd(box.position.x, size.width)))
                 closestY == NMax(box.position.y,
                                  NMin(circle.position.y, NAdd(box.position.y, size.height)))
                 dx == NSub(circle.position.x, closestX)
                 dy == NSub(circle.position.y, closestY)
                 distance == NSqrt(NAdd(NMul(dx, dx), NMul(dy, dy)))
                 radius == OrDefault(circle.radius, DefaultRadius)
             IN  [isColliding |-> NLt(distance, radius),
                  distance    |-> distance,
                  normal      |-> IF NGt(distance, Zero)
                                  THEN Vec(NDiv(dx, distance), NDiv(dy, distance), Zero)
                                  ELSE IVec(1, 0, 0),
                  overlap     |-> NMax(Zero, NSub(radius, distance))]

\* obj.mass || 1
massOf(obj) == OrDefault(obj.mass, DefaultMass)

\* relative velocity along the normal
velAlongNormalOf(v1, v2, normal) ==
    LET rvx == NSub(v2.x, v1.x)
        rvy == NSub(v2.y, v1.y)
        rvz == NSub(OrDefault(v2.z, Zero), OrDefault(v1.z, Zero))
    IN  NAdd(NAdd(NMul(rvx, normal.x), NMul(rvy, normal.y)), NMul(rvz, normal.z))

\* Math.min(obj1.restitution || 0.8, obj2.restitution || 0.8)
restitutionOf(obj1, obj2) ==
    NMin(OrDefault(obj1.restitution, DefaultRestitution),
         OrDefault(obj2.restitution, DefaultRestitution))

\* impulseScalar with the factor e in place of (1 + e)
impulseScalarNoBounce(e, velAlongNormal, m1, m2) ==
    NDiv(NMul(NNeg(e), velAlongNormal),
         NAdd(NDiv(One, m1), NDiv(One, m2)))

\* j = -(1 + e) * velAlongNormal / (1 / m1 + 1 / m2)
impulseScalar(e, velAlongNormal, m1, m2) ==
    NDiv(NMul(NNeg(NAdd(One, e)), velAlongNormal),
         NAdd(NDiv(One, m1), NDiv(One, m2)))

\* applyImpulse dividing both impulses by m1
applyImpulseFirstMass(v1, v2, impulse, m1, m2) ==
    [velocity1 |-> Vec(NSub(v1.x, NDiv(impulse.x, m1)),
                       NSub(v1.y, NDiv(impulse.y, m1)),
                       NSub(OrDefault(v1.z, Zero), NDiv(impulse.z, m1))),
     velocity2 |-> Vec(NAdd(v2.x, NDiv(impulse.x, m1)),
                       NAdd(v2.y, NDiv(impulse.y, m1)),
                       NAdd(OrDefault(v2.z, Zero), NDiv(impulse.z, m1)))]

\* the returned velocities: v1 - impulse / m1, v2 + impulse / m2
applyImpulse(v1, v2, impulse, m1, m2) ==
    [velocity1 |-> Vec(NSub(v1.x, NDiv(impulse.x, m1)),
                       NSub(v1.y, NDiv(impulse.y, m1)),
                       NSub(OrDefault(v1.z, Zero), NDiv(impulse.z, m1))),
     velocity2 |-> Vec(NAdd(v2.x, NDiv(impulse.x, m2)),
                       NAdd(v2.y, NDiv(impulse.y, m2)),
                       NAdd(OrDefault(v2.z, Zero), NDiv(impulse.z, m2)))]

\* resolveCollision without the test for separating velocities
resolveCollisionAlways(obj1, obj2, collision) ==
    IF ~collision.isColliding
    THEN [velocity1 |-> obj1.velocity, velocity2 |-> obj2.velocity]
    ELSE
    LET v1 == obj1.velocity
        v2 == obj2.velocity
        m1 == massOf(obj1)
        m2 == massOf(obj2)
        normal == collision.normal
        velAlongNormal == velAlongNormalOf(v1, v2, normal)
        e == restitutionOf(obj1, obj2)
        jj == impulseScalar(e, velAlongNormal, m1, m2)
        impulse == Vec(NMul(jj, normal.x), NMul(jj, normal.y), NMul(jj, normal.z))
    IN  applyImpulse(v1, v2, impulse, m1, m2)

resolveCollision(obj1, obj2, collision) ==
    IF ~collision.isColliding
    THEN [velocity1 |-> obj1.velocity, velocity2 |-> obj2.velocity]
    ELSE
    LET v1 == obj1.velocity
        v2 == obj2.velocity
        m1 == massOf(obj1)
        m2 == massOf(obj2)
        normal == collision.normal
        velAlongNormal == velAlongNormalOf(v1, v2, normal)
    IN  IF NGt(velAlongNormal, Zero)
        THEN [velocity1 |-> v1, velocity2 |-> v2]
        ELSE
        LET e == restitutionOf(obj1, obj2)
            jj == impulseScalar(e, velAlongNormal, m1, m2)
            impulse == Vec(NMul(jj, normal.x), NMul(jj, normal.y), NMul(jj, normal.z))
        IN  applyImpulse(v1, v2, impulse, m1, m2)

----------------------------------------------------------------------------
(* checkAllCollisions, one step per loop iteration *)

NoCall == [op |-> "none"]

NoTunnel == [op |-> "none"]

NoFieldLine == [pc |-> "idle"]

NoWave == [op |-> "none"]

NoSpacetime == [op |-> "none"]

NoTrails == [op |-> "none"]

NoFieldGroup == [op |-> "none"]

NoCoil == [op |-> "none"]

NoQRNG == [op |-> "none"]

\* const collisions = []; for (let i = 0; ...
CheckAllStart ==
    /\ pc = "idle"
    /\ call = NoCall
    /\ pc' = "loop"
    /\ i' = 1
    /\ j' = 2
    /\ collisions' = <<>>
    /\ examined' = <<>>
    /\ UNCHANGED <<objects, call, tunnel, fieldLine, wave,
                 spacetime, trails, fieldGroup, coil, qrng>>

\* CheckAllPair skipping a pair only when its first body is disabled
CheckAllPairFirstFlagOnly ==
    /\ pc = "loop"
    /\ i <= Len(objects)
    /\ j <= Len(objects)
    /\ LET obj1 == objects[i]
           obj2 == objects[j]
           collision == checkCollision(obj1, obj2)
       IN  collisions' =
             IF obj1.collisionEnabled = FALSE
             THEN collisions
             ELSE IF collision.isColliding
             THEN Append(collisions, [i |-> i, j |-> j, obj1 |-> obj1, obj2 |-> obj2,
                                      collision |-> collision])
             ELSE collisions
    /\ examined' = Append(examined, <<i, j>>)
    /\ j' = j + 1
    /\ UNCHANGED <<objects, pc, i, call, tunnel, fieldLine, wave,
                 spacetime, trails, fieldGroup, coil, qrng>>

\* the body of the inner loop for the pair (i, j), then j++;
\* an entry's i and j stand for the identity of the objects it refers to
CheckAllPair ==
    /\ pc = "loop"
    /\ i <= Len(objects)
    /\ j <= Len(objects)
    /\ LET obj1 == objects[i]
           obj2 == objects[j]
           collision == checkCollision(obj1, obj2)
       IN  collisions' =
             IF obj1.collisionEnabled = FALSE \/ obj2.collisionEnabled = FALSE
             THEN collisions
             ELSE IF collision.isColliding
             THEN Append(collisions, [i |-> i, j |-> j, obj1 |-> obj1, obj2 |-> obj2,
                                      collision |-> collision])
             ELSE collisions
    /\ examined' = Append(examined, <<i, j>>)
    /\ j' = j + 1
    /\ UNCHANGED <<objects, pc, i, call, tunnel, fieldLine, wave,
                 spacetime, trails, fieldGroup, coil, qrng>>

\* the inner loop ends: i++, j = i + 1
CheckAllNextI ==
    /\ pc = "loop"
    /\ i <= Len(objects)
    /\ j > Len(objects)
    /\ i' = i + 1
    /\ j' = i + 2
    /\ UNCHANGED <<objects, pc, collisions, examined, call, tunnel, fieldLine, wave,
                 spacetime, trails, fieldGroup, coil, qrng>>

\* the outer loop ends: return collisions
CheckAllReturn ==
    /\ pc = "loop"
    /\ i > Len(objects)
    /\ pc' = "done"
    /\ UNCHANGED <<objects, i, j, collisions, examined, call, tunnel, fieldLine, wave,
                 spacetime, trails, fieldGroup, coil, qrng>>

NextBroad == CheckAllStart \/ CheckAllPair \/ CheckAllNextI \/ CheckAllReturn

----------------------------------------------------------------------------
(* direct calls of checkCollision and resolveCollision on a pair *)

CheckCollision(a, b) ==
    /\ pc = "idle"
    /\ call = NoCall
    /\ call' = [op |-> "check", a |-> a, b |-> b,
                collision |-> checkCollision(objects[a], objects[b])]
    /\ UNCHANGED <<objects, pc, i, j, collisions, examined, tunnel, fieldLine, wave,
                 spacetime, trails, fieldGroup, coil, qrng>>

\* ResolveCollision writing the new velocities into the bodies
ResolveCollisionInPlace ==
    /\ call.op = "check"
    /\ LET result == resolveCollision(objects[call.a], objects[call.b], call.collision)
       IN  /\ call' = [op |-> "resolve", a |-> call.a, b |-> call.b,
                       collision |-> call.collision, result |-> result]
           /\ objects' = [objects EXCEPT ![call.a].velocity = result.velocity1,
                                         ![call.b].velocity = result.velocity2]
    /\ UNCHANGED <<pc, i, j, collisions, examined, tunnel, fieldLine, wave,
                 spacetime, trails, fieldGroup, coil, qrng>>

ResolveCollision ==
    /\ call.op = "check"
    /\ call' = [op |-> "resolve", a |-> call.a, b |-> call.b,
                collision |-> call.collision,
                result |-> resolveCollision(objects[call.a], objects[call.b],
                                            call.collision)]
    /\ UNCHANGED <<objects, pc, i, j, collisions, examined, tunnel, fieldLine, wave,
                 spacetime, trails, fieldGroup, coil, qrng>>

NextPair ==
    \/ \E a, b \in 1..Len(objects) : a # b /\ CheckCollision(a, b)
    \/ ResolveCollision

Next == NextBroad \/ NextPair

----------------------------------------------------------------------------
(* inputs *)

MaxBodies == 3

NarrowCoord == 1

MaxSpeed == 1

Shapes == {"circle", "box", "none"}

\* bodies on a line, one unit apart: two bodies collide when they coincide,
\* and a circle also collides with the box one unit to its left
BroadXs == {0, 1}

BroadBodies ==
    { Body(sh, IVec(x, 0, 0), ZeroVec, Zero, Zero, Zero, NoSize, en) :
        sh \in {"circle", "box"}, x \in BroadXs, en \in BOOLEAN }

InitIdle ==
    /\ pc = "idle"
    /\ i = 0
    /\ j = 0
    /\ collisions = <<>>
    /\ examined = <<>>
    /\ call = NoCall
    /\ tunnel = NoTunnel
    /\ fieldLine = NoFieldLine
    /\ wave = NoWave
    /\ spacetime = NoSpacetime
    /\ trails = NoTrails
    /\ fieldGroup = NoFieldGroup
    /\ coil = NoCoil
    /\ qrng = NoQRNG

InitBroad ==
    /\ objects \in UNION { [1..n -> BroadBodies] : n \in 0..MaxBodies }
    /\ InitIdle

SpecBroad == InitBroad /\ [][NextBroad]_vars

\* two bodies of every shape combination around the origin
NarrowRadii1 == {Zero, One}

NarrowRadii2 == {Zero, Rat(1, 2), One, Int2Num(2)}

NarrowSizes == {NoSize, Size(Int2Num(2), One, Zero)}

InitNarrow ==
    /\ \E sh1, sh2 \in Shapes, r1 \in NarrowRadii1, r2 \in NarrowRadii2,
          sz1, sz2 \in NarrowSizes,
          x, y, z \in (-NarrowCoord)..NarrowCoord :
         objects = << Body(sh1, ZeroVec, ZeroVec, One, One, r1, sz1, TRUE),
                      Body(sh2, IVec(x, y, z), ZeroVec, One, One, r2, sz2, TRUE) >>
    /\ InitIdle

SpecNarrow == InitNarrow /\ [][NextPair]_vars

\* two circles of radius 1, the second at one of these places
ResolvePlaces ==
    {IVec(0, 0, 0), IVec(1, 0, 0), IVec(-1, 0, 0), IVec(1, 1, 0), IVec(2, 0, 0)}

Masses1 == {One, Int2Num(2)}

Masses2 == {Int2Num(-1), Zero, One, Int2Num(2)}

Restitutions == {Zero, Rat(1, 2), One}

Init ==
    /\ \E p \in ResolvePlaces, m1 \in Masses1, m2 \in Masses2,
          e1, e2 \in Restitutions,
          v1x \in 0..MaxSpeed, v2x \in (-MaxSpeed)..MaxSpeed, v2y \in 0..1 :
         objects = << Body("circle", ZeroVec, IVec(v1x, 0, 0), m1, e1, One, NoSize, TRUE),
                      Body("circle", p, IVec(v2x, v2y, 0), m2, e2, One, NoSize, TRUE) >>
    /\ InitIdle

Spec == Init /\ [][NextPair]_vars

\* two boxes, the second overlapping the first, touching it or apart
BoxPlaces == {IVec(0, 0, 0), IVec(1, 0, 0), IVec(1, 1, 0), IVec(3, 0, 0)}

InitBoxes ==
    /\ \E p \in BoxPlaces, sz1 \in NarrowSizes, m1 \in Masses1, m2 \in Masses2,
          e1, e2 \in Restitutions,
          v1x \in 0..MaxSpeed, v2x \in (-MaxSpeed)..MaxSpeed, v2y \in 0..1 :
         objects = << Body("box", ZeroVec, IVec(v1x, 0, 0), m1, e1, Zero, sz1, TRUE),
                      Body("box", p, IVec(v2x, v2y, 0), m2, e2, Zero, NoSize, TRUE) >>
    /\ InitIdle

SpecBoxes == InitBoxes /\ [][NextPair]_vars

\* the same bodies, with every collision function called on them
SpecHost == Init /\ [][Next]_vars

----------------------------------------------------------------------------
(* Properties of the broad phase and of the frame *)

PairsOf(n) == { p \in (1..n) \X (1..n) : p[1] < p[2] }

PairLess(p, q) == p[1] < q[1] \/ (p[1] = q[1] /\ p[2] < q[2])

EntryPair(c) == <<c.i, c.j>>

\* C1: when checkAllCollisions returns, the inner loop body has run exactly
\* once for each of the n(n-1)/2 pairs i < j, and the returned array holds, in
\* ascending (i, j) order, exactly one entry for each pair of enabled bodies
\* that checkCollision reports as colliding, and nothing else.
C1_BroadPhase ==
    pc = "done" =>
      LET n == Len(objects) IN
      /\ 2 * Len(examined) = n * (n - 1)
      /\ \A k \in 1..Len(examined) : examined[k] \in PairsOf(n)
      /\ \A p \in PairsOf(n) :
           Cardinality({ k \in 1..Len(examined) : examined[k] = p }) = 1
      /\ \A k \in 1..(Len(collisions) - 1) :
           PairLess(EntryPair(collisions[k]), EntryPair(collisions[k + 1]))
      /\ \A k \in 1..Len(collisions) :
           LET c == collisions[k] IN
           /\ EntryPair(c) \in PairsOf(n)
           /\ c.obj1 = objects[c.i]
           /\ c.obj2 = objects[c.j]
           /\ c.obj1.collisionEnabled
           /\ c.obj2.collisionEnabled
           /\ c.collision = checkCollision(objects[c.i], objects[c.j])
           /\ c.collision.isColliding
      /\ \A p \in PairsOf(n) :
           ( /\ objects[p[1]].collisionEnabled
             /\ objects[p[2]].collisionEnabled
             /\ checkCollision(objects[p[1]], objects[p[2]]).isColliding )
           => \E k \in 1..Len(collisions) : EntryPair(collisions[k]) = p

\* three coinciding bodies, the first disabled: one entry, for the pair (2, 3)
C1_Witness ==
    /\ pc = "done"
    /\ Len(objects) = 3
    /\ ~objects[1].collisionEnabled
    /\ checkCollision(objects[1], objects[2]).isColliding
    /\ Len(examined) = 3
    /\ Len(collisions) = 1
    /\ EntryPair(collisions[1]) = <<2, 3>>

\* C2: no step of checkCollision, resolveCollision or checkAllCollisions
\* changes a body, and resolveCollision returns velocity1 and velocity2 only.
C2_NoMutation ==
    /\ [][objects' = objects]_vars
    /\ [](call.op = "resolve" => DOMAIN call.result = {"velocity1", "velocity2"})

\* an impulse was applied: the result differs from the body's own velocity
C2_Witness ==
    /\ call.op = "resolve"
    /\ call.collision.isColliding
    /\ call.result.velocity1 # objects[call.a].velocity
    /\ call.result.velocity2 # objects[call.b].velocity

----------------------------------------------------------------------------
(* Properties of resolveCollision *)

Dot(u, v) == NAdd(NAdd(NMul(u.x, v.x), NMul(u.y, v.y)), NMul(u.z, v.z))

VSub(u, v) == Vec(NSub(u.x, v.x), NSub(u.y, v.y), NSub(u.z, v.z))

VAdd(u, v) == Vec(NAdd(u.x, v.x), NAdd(u.y, v.y), NAdd(u.z, v.z))

VScale(k, u) == Vec(NMul(k, u.x), NMul(k, u.y), NMul(k, u.z))

Cross(u, v) ==
    Vec(NSub(NMul(u.y, v.z), NMul(u.z, v.y)),
        NSub(NMul(u.z, v.x), NMul(u.x, v.z)),
        NSub(NMul(u.x, v.y), NMul(u.y, v.x)))

\* the arguments of the last call
Obj1 == objects[call.a]

Obj2 == objects[call.b]

Resolved == call.op = "resolve" /\ call.collision.isColliding

\* (v2 - v1).n for the last call
RelVelAlongNormal == Dot(VSub(Obj2.velocity, Obj1.velocity), call.collision.normal)

\* a Body's mass is > 0
ValidMasses == NGt(Obj1.mass, Zero) /\ NGt(Obj2.mass, Zero)

\* C3 (as claimed): whenever an impulse is applied to two bodies of positive
\* mass, the result is v1 - j*n/m1 and v2 + j*n/m2 with
\* j = -(1+e)*(v_rel.n)/(1/m1 + 1/m2) and e the smaller of the two bodies'
\* restitution values, for all restitutions in [0,1], 0 included.
C3_MinRestitution ==
    (Resolved /\ ValidMasses /\ ~NGt(RelVelAlongNormal, Zero)) =>
      LET e  == NMin(Obj1.restitution, Obj2.restitution)
          n  == call.collision.normal
          jj == NDiv(NMul(NNeg(NAdd(One, e)), RelVelAlongNormal),
                     NAdd(NInv(Obj1.mass), NInv(Obj2.mass)))
      IN  /\ call.result.velocity1
               = VSub(Obj1.velocity, VScale(NDiv(jj, Obj1.mass), n))
          /\ call.result.velocity2
               = VAdd(Obj2.velocity, VScale(NDiv(jj, Obj2.mass), n))

\* C4: for a colliding pair of bodies of positive mass whose relative velocity
\* along the normal is zero or positive, resolveCollision returns the input
\* velocities.
C4_NoImpulseWhenSeparating ==
    (Resolved /\ ValidMasses /\ NGe(RelVelAlongNormal, Zero)) =>
      /\ call.result.velocity1 = Obj1.velocity
      /\ call.result.velocity2 = Obj2.velocity

\* both bodies move, at the same velocity: the relative velocity is exactly 0
\* and the impulse branch runs
C4_Witness ==
    /\ Resolved
    /\ ValidMasses
    /\ RelVelAlongNormal = Zero
    /\ Obj1.velocity # ZeroVec
    /\ call.collision.normal # IVec(1, 0, 0)
    /\ call.result.velocity1 = Obj1.velocity
    /\ call.result.velocity2 = Obj2.velocity

\* C5 (as claimed): resolveCollision reports an error for a body whose mass is
\* not strictly positive and for a total inverse mass of zero.
C5_RejectsInvalidMass ==
    ( /\ call.op = "resolve"
      /\ \/ ~ValidMasses
         \/ NAdd(NInv(Obj1.mass), NInv(Obj2.mass)) = Zero )
    => "error" \in DOMAIN call.result

Momentum(m1, v1, m2, v2) == VAdd(VScale(m1, v1), VScale(m2, v2))

\* twice the kinetic energy
Energy2(m1, v1, m2, v2) == NAdd(NMul(m1, Dot(v1, v1)), NMul(m2, Dot(v2, v2)))

Circles == ShapeOf(Obj1) = "circle" /\ ShapeOf(Obj2) = "circle"

\* C6: for colliding circles of positive mass that approach each other along
\* the normal, m1*velocity1 + m2*velocity2 of the result equals m1*v1 + m2*v2
\* in every component.
C6_MomentumConserved ==
    (Resolved /\ Circles /\ ValidMasses /\ NLt(RelVelAlongNormal, Zero)) =>
      Momentum(Obj1.mass, call.result.velocity1, Obj2.mass, call.result.velocity2)
        = Momentum(Obj1.mass, Obj1.velocity, Obj2.mass, Obj2.velocity)

\* mass 2 at (1,0,0) hits a resting mass 1, restitution 0.5: (0.5,0,0), (1,0,0)
C6_Witness ==
    /\ Resolved
    /\ call.a = 1
    /\ Obj1.mass = Int2Num(2)
    /\ Obj1.velocity = IVec(1, 0, 0)
    /\ Obj2.mass = One
    /\ Obj2.velocity = ZeroVec
    /\ Obj1.restitution = Rat(1, 2)
    /\ Obj2.restitution = Rat(1, 2)
    /\ call.result.velocity1 = Vec(Rat(1, 2), Zero, Zero)
    /\ call.result.velocity2 = IVec(1, 0, 0)

\* C7: for circles of equal positive mass, both of restitution 1, approaching
\* each other, the result has the two velocity components along the normal
\* swapped and the same momentum and kinetic energy; when both velocities lie
\* along the normal (head-on) the velocities themselves are swapped.
C7_ElasticSwap ==
    ( /\ Resolved /\ Circles /\ ValidMasses
      /\ Obj1.mass = Obj2.mass
      /\ Obj1.restitution = One /\ Obj2.restitution = One
      /\ NLt(RelVelAlongNormal, Zero) ) =>
      LET n  == call.collision.normal
          m  == Obj1.mass
          r1 == call.result.velocity1
          r2 == call.result.velocity2
      IN  /\ Dot(r1, n) = Dot(Obj2.velocity, n)
          /\ Dot(r2, n) = Dot(Obj1.velocity, n)
          /\ Momentum(m, r1, m, r2) = Momentum(m, Obj1.velocity, m, Obj2.velocity)
          /\ Energy2(m, r1, m, r2) = Energy2(m, Obj1.velocity, m, Obj2.velocity)
          /\ ( /\ Cross(Obj1.velocity, n) = ZeroVec
               /\ Cross(Obj2.velocity, n) = ZeroVec )
             => (r1 = Obj2.velocity /\ r2 = Obj1.velocity)

\* two unit masses meet head-on at (1,0,0) and (-1,0,0) and leave swapped
C7_Witness ==
    /\ Resolved
    /\ call.a = 1
    /\ Obj1.mass = One /\ Obj2.mass = One
    /\ Obj1.restitution = One /\ Obj2.restitution = One
    /\ Obj1.velocity = IVec(1, 0, 0)
    /\ Obj2.velocity = IVec(-1, 0, 0)
    /\ call.collision.normal = IVec(1, 0, 0)
    /\ call.result.velocity1 = IVec(-1, 0, 0)
    /\ call.result.velocity2 = IVec(1, 0, 0)

----------------------------------------------------------------------------
(* Properties of checkCollision *)

Checked == call.op \in {"check", "resolve"}

\* the radius of a circle body, 0.5 when it has none
RadiusOf(obj) == IF obj.radius = Zero THEN Rat(1, 2) ELSE obj.radius

\* the square of the distance between the centres
CentreDist2 == LET d == VSub(Obj2.position, Obj1.position) IN Dot(d, d)

\* C8: for two circles, isColliding holds exactly when the centre distance is
\* below the sum of the radii (compared by their squares), the normal has
\* length 1 (also for coincident centres), overlap is
\* max(0, radii - distance), and overlap > 0 exactly when isColliding.
C8_CircleCircle ==
    (Checked /\ Circles) =>
      LET c    == call.collision
          rsum == NAdd(RadiusOf(Obj1), RadiusOf(Obj2))
      IN  /\ c.isColliding <=> NLt(CentreDist2, NMul(rsum, rsum))
          /\ Dot(c.normal, c.normal) = One
          /\ c.overlap = NMax(Zero, NSub(rsum, NSqrt(CentreDist2)))
          /\ c.isColliding <=> NGt(c.overlap, Zero)

\* two circles with the same centre: colliding, normal (1,0,0), full overlap
C8_Witness ==
    /\ Checked
    /\ Circles
    /\ Obj1.position = Obj2.position
    /\ call.collision.isColliding
    /\ call.collision.normal = IVec(1, 0, 0)
    /\ call.collision.overlap = call.collision.minDistance

\* the extent of a box along each axis (1 by default)
BoxExtent(obj) ==
    IF obj.size = NoSize THEN Vec(One, One, One)
    ELSE Vec(obj.size.width, obj.size.height,
             IF obj.size.depth = Zero THEN One ELSE obj.size.depth)

\* the open intervals (p1, p1 + s1) and (p2, p2 + s2) overlap
AxisOverlap(p1, s1, p2, s2) == NLt(p1, NAdd(p2, s2)) /\ NLt(p2, NAdd(p1, s1))

Boxes == ShapeOf(Obj1) = "box" /\ ShapeOf(Obj2) = "box"

\* C9: for two boxes, isColliding is the overlap of their extents on the x, y
\* and z axes, and normal, overlap and distance are always zero.
C9_BoxBox ==
    (Checked /\ Boxes) =>
      LET c  == call.collision
          e1 == BoxExtent(Obj1)
          e2 == BoxExtent(Obj2)
      IN  /\ c.isColliding <=>
               /\ AxisOverlap(Obj1.position.x, e1.x, Obj2.position.x, e2.x)
               /\ AxisOverlap(Obj1.position.y, e1.y, Obj2.position.y, e2.y)
               /\ AxisOverlap(Obj1.position.z, e1.z, Obj2.position.z, e2.z)
          /\ c.normal = ZeroVec
          /\ c.overlap = Zero
          /\ c.distance = Zero

\* two boxes that overlap partly, and two that coincide, give the same result
C9_Witness ==
    /\ Checked
    /\ Boxes
    /\ Obj1.position # Obj2.position
    /\ call.collision.isColliding
    /\ call.collision.normal = ZeroVec
    /\ call.collision.overlap = Zero

----------------------------------------------------------------------------
(* Quantum tunneling: QuantumFormulas.tunnelingProbability (physicsFormulas.js)
   and calculateTunneling (physics/QuantumMechanics, called by the
   QuantumTunneling page).

   The numbers of this computation are in units in which hbar = 1: the
   constant 1.0545718e-34 has no exact small representation, and the exponent
   -2*sqrt(2*m*(V - E))*w/hbar depends on hbar only through w/hbar.
   exp(x) is kept as the term [exp |-> x] for finite x # 0; exp is injective,
   so two such terms are equal exactly when their values are. *)

hbar == One

\* Math.exp
NExp(x) ==
    IF IsNaN(x) THEN NaN
    ELSE IF x = Zero THEN One
    ELSE IF x.d = 0 THEN (IF x.n > 0 THEN x ELSE Zero)
    ELSE [exp |-> x]

IsExp(t) == "exp" \in DOMAIN t

\* tunnelingProbability with exp(-kappa * barrierWidth)
tunnelingProbabilityHalfExponent(energy, barrierHeight, barrierWidth, mass) ==
    IF NGe(energy, barrierHeight) THEN One
    ELSE LET kappa == NDiv(NSqrt(NMul(NMul(Int2Num(2), mass),
                                      NSub(barrierHeight, energy))), hbar)
         IN  NExp(NMul(NNeg(kappa), barrierWidth))

tunnelingProbability(energy, barrierHeight, barrierWidth, mass) ==
    IF NGe(energy, barrierHeight) THEN One
    ELSE LET kappa == NDiv(NSqrt(NMul(NMul(Int2Num(2), mass),
                                      NSub(barrierHeight, energy))), hbar)
         IN  NExp(NMul(NMul(Int2Num(-2), kappa), barrierWidth))

\* 1 - t, for t a number or an exp term
OneMinus(t) == IF IsExp(t) THEN [oneMinusExp |-> t.exp] ELSE NSub(One, t)

\* t clamped to [0, 1]
Clamp01(t) ==
    IF IsExp(t) THEN (IF t.exp.n > 0 THEN One ELSE t)
    ELSE NMax(Zero, NMin(One, t))

\* calculateTunneling with a reflection that is not the complement of T:
\* 1/2 above the barrier, 1 - exp(-kappa * barrierWidth) below it
calculateTunnelingHalfReflection(p) ==
    IF ~NGt(p.barrierWidth, Zero) \/ ~NGt(p.mass, Zero)
    THEN [error |-> "DomainError"]
    ELSE IF NGe(p.energy, p.barrierHeight)
    THEN [transmissionProbability |-> One,
          reflectionProbability   |-> Rat(1, 2),
          tunneling               |-> FALSE]
    ELSE LET kappa == NDiv(NSqrt(NMul(NMul(Int2Num(2), p.mass),
                                      NSub(p.barrierHeight, p.energy))), hbar)
             T     == Clamp01(NExp(NMul(NMul(Int2Num(-2), kappa), p.barrierWidth)))
         IN  [transmissionProbability |-> T,
              reflectionProbability   |-> OneMinus(NExp(NMul(NNeg(kappa), p.barrierWidth))),
              tunneling               |-> TRUE]

\* calculateTunneling({energy, barrierHeight, barrierWidth, mass}), after
\* sections 4.3 and 7 of the specification
calculateTunneling(p) ==
    IF ~NGt(p.barrierWidth, Zero) \/ ~NGt(p.mass, Zero)
    THEN [error |-> "DomainError"]
    ELSE IF NGe(p.energy, p.barrierHeight)
    THEN [transmissionProbability |-> One,
          reflectionProbability   |-> OneMinus(One),
          tunneling               |-> FALSE]
    ELSE LET kappa == NDiv(NSqrt(NMul(NMul(Int2Num(2), p.mass),
                                      NSub(p.barrierHeight, p.energy))), hbar)
             T     == Clamp01(NExp(NMul(NMul(Int2Num(-2), kappa), p.barrierWidth)))
         IN  [transmissionProbability |-> T,
              reflectionProbability   |-> OneMinus(T),
              tunneling               |-> TRUE]

\* the QuantumTunneling page computes the tunneling result for its parameters
TunnelCompute(energy, barrierHeight, barrierWidth, mass) ==
    /\ tunnel = NoTunnel
    /\ tunnel' = [op |-> "done",
                  energy |-> energy, barrierHeight |-> barrierHeight,
                  barrierWidth |-> barrierWidth, mass |-> mass,
                  probability |-> tunnelingProbability(energy, barrierHeight,
                                                       barrierWidth, mass),
                  result |-> calculateTunneling(
                                [energy |-> energy, barrierHeight |-> barrierHeight,
                                 barrierWidth |-> barrierWidth, mass |-> mass])]
    /\ UNCHANGED <<objects, pc, i, j, collisions, examined, call, fieldLine, wave,
                 spacetime, trails, fieldGroup, coil, qrng>>

MaxEnergy == 3

TunnelWidths == {Int2Num(-1), Zero, One, Int2Num(2)}

TunnelMasses == {Int2Num(-1), Zero, One, Int2Num(2)}

NextTunnel ==
    \E e, v \in 0..MaxEnergy, w \in TunnelWidths, m \in TunnelMasses :
        TunnelCompute(Int2Num(e), Int2Num(v), w, m)

InitTunnel ==
    /\ objects = <<>>
    /\ InitIdle

SpecTunnel == InitTunnel /\ [][NextTunnel]_vars

\* C10: tunnelingProbability is 1 whenever energy >= barrierHeight and
\* exp(-2*kappa*barrierWidth), kappa = sqrt(2*mass*(barrierHeight - energy))/hbar,
\* otherwise; for barrierWidth > 0 and mass > 0, calculateTunneling returns
\* that transmission probability, reflection 1 - T, and tunneling = FALSE in
\* the first case, TRUE in the second.
C10_Tunneling ==
    tunnel.op = "done" =>
      LET over  == NGe(tunnel.energy, tunnel.barrierHeight)
          kappa == NDiv(NSqrt(NMul(Int2Num(2),
                                   NMul(tunnel.mass,
                                        NSub(tunnel.barrierHeight, tunnel.energy)))),
                        hbar)
          T     == IF over THEN One
                   ELSE NExp(NNeg(NMul(Int2Num(2), NMul(kappa, tunnel.barrierWidth))))
          valid == NGt(tunnel.barrierWidth, Zero) /\ NGt(tunnel.mass, Zero)
      IN  /\ tunnel.probability = T
          /\ valid =>
               /\ tunnel.result.transmissionProbability = T
               /\ tunnel.result.reflectionProbability = OneMinus(T)
               /\ tunnel.result.tunneling = ~over

\* mass 2, barrier 1 above the energy, width 1: kappa = 2 and T = exp(-4)
C10_Witness ==
    /\ tunnel.op = "done"
    /\ tunnel.mass = Int2Num(2)
    /\ tunnel.barrierWidth = One
    /\ tunnel.barrierHeight = NAdd(tunnel.energy, One)
    /\ tunnel.probability = [exp |-> Int2Num(-4)]
    /\ tunnel.result.transmissionProbability = [exp |-> Int2Num(-4)]
    /\ tunnel.result.reflectionProbability = [oneMinusExp |-> Int2Num(-4)]
    /\ tunnel.result.tunneling

\* t + r for probabilities: exp(x) + (1 - exp(x)) is 1, two numbers add as
\* numbers, and any other pair of terms stays a formal sum
ProbSum(t, r) ==
    IF IsExp(t) \/ "oneMinusExp" \in DOMAIN r
    THEN IF IsExp(t) /\ r = [oneMinusExp |-> t.exp] THEN One
         ELSE [sum |-> <<t, r>>]
    ELSE IF IsExp(r) THEN [sum |-> <<t, r>>]
    ELSE NAdd(t, r)

ValidTunnelInput ==
    /\ NGe(tunnel.energy, Zero)
    /\ NGe(tunnel.barrierHeight, Zero)
    /\ NGt(tunnel.barrierWidth, Zero)
    /\ NGt(tunnel.mass, Zero)

\* C11: for every valid input (energy >= 0, barrierHeight >= 0,
\* barrierWidth > 0, mass > 0) the transmission and reflection probabilities
\* of the tunneling result sum to exactly 1.
C11_ProbabilitiesSumToOne ==
    (tunnel.op = "done" /\ ValidTunnelInput) =>
        ProbSum(tunnel.result.transmissionProbability,
                tunnel.result.reflectionProbability) = One

\* a valid input below the barrier: T = exp(-2*sqrt(2)), R = 1 - T
C11_Witness ==
    /\ tunnel.op = "done"
    /\ ValidTunnelInput
    /\ tunnel.energy = One /\ tunnel.barrierHeight = Int2Num(2)
    /\ tunnel.barrierWidth = One /\ tunnel.mass = One
    /\ IsExp(tunnel.result.transmissionProbability)
    /\ tunnel.result.transmissionProbability = tunnel.probability
    /\ tunnel.result.reflectionProbability
         = [oneMinusExp |-> tunnel.probability.exp]

\* p is a probability: a number in [0, 1], or exp of a negative number
InUnitInterval(p) ==
    IF IsExp(p) THEN p.exp.n < 0
    ELSE "n" \in DOMAIN p /\ NGe(p, Zero) /\ NGe(One, p)

\* C12: the tunneling computation rejects degenerate inputs: for
\* barrierWidth <= 0 or mass <= 0 it reports an error instead of a
\* probability, so every transmission probability it returns lies in [0, 1]
\* (never NaN, never above 1).  Stated of QuantumFormulas.tunnelingProbability.
C12_RejectsDegenerate ==
    tunnel.op = "done" =>
        LET degenerate == ~NGt(tunnel.barrierWidth, Zero) \/ ~NGt(tunnel.mass, Zero)
            rejected   == "error" \in DOMAIN tunnel.probability
        IN  /\ degenerate => rejected
            /\ ~rejected => InUnitInterval(tunnel.probability)

----------------------------------------------------------------------------
(* Electric field lines: calculateFieldLine of ElectricFieldVisualization.

   Charges are measured in units of 1/(8.99e9) C, so that Coulomb's constant
   k is 1 and the thresholds 0.3, 0.01 and 15 of the code keep their values.
   The inputs are chosen so that every intermediate value is of the form
   (n/d)*sqrt(s): the start point and the charges lie on one line through
   the origin. *)

k == One

tooCloseDistance == Rat(3, 10)

minFieldMagnitude == Rat(1, 100)

maxExtent == Int2Num(15)

DefaultMaxSteps == 200

DefaultStepSize == Rat(1, 10)

Charge(position, q) == [position |-> position, q |-> q]

\* Math.abs
NAbs(x) == IF NSign(x) < 0 THEN NNeg(x) ELSE x

\* Vector3.distanceTo
distanceTo(p, c) ==
    LET dx == NSub(p.x, c.x)
        dy == NSub(p.y, c.y)
        dz == NSub(p.z, c.z)
    IN  NSqrt(NAdd(NAdd(NMul(dx, dx), NMul(dy, dy)), NMul(dz, dz)))

\* chargeField dividing by any distance
chargeFieldNoFloor(currentPoint, charge) ==
    LET dx == NSub(currentPoint.x, charge.position.x)
        dy == NSub(currentPoint.y, charge.position.y)
        dz == NSub(OrDefault(currentPoint.z, Zero), OrDefault(charge.position.z, Zero))
        distanceSq == NAdd(NAdd(NMul(dx, dx), NMul(dy, dy)), NMul(dz, dz))
        distance == NSqrt(distanceSq)
        fieldMagnitude == NDiv(NMul(k, charge.q), distanceSq)
    IN  Vec(NMul(fieldMagnitude, NDiv(dx, distance)),
            NMul(fieldMagnitude, NDiv(dy, distance)),
            NMul(fieldMagnitude, NDiv(dz, distance)))

\* what one charge adds to (fieldX, fieldY, fieldZ) at currentPoint
chargeField(currentPoint, charge) ==
    LET dx == NSub(currentPoint.x, charge.position.x)
        dy == NSub(currentPoint.y, charge.position.y)
        dz == NSub(OrDefault(currentPoint.z, Zero), OrDefault(charge.position.z, Zero))
        distanceSq == NAdd(NAdd(NMul(dx, dx), NMul(dy, dy)), NMul(dz, dz))
        distance == NSqrt(distanceSq)
        fieldMagnitude == NDiv(NMul(k, charge.q), distanceSq)
    IN  IF NLt(distance, tooCloseDistance) THEN ZeroVec
        ELSE Vec(NMul(fieldMagnitude, NDiv(dx, distance)),
                 NMul(fieldMagnitude, NDiv(dy, distance)),
                 NMul(fieldMagnitude, NDiv(dz, distance)))

\* the field summed over the first n charges
RECURSIVE fieldAt(_, _, _)
fieldAt(currentPoint, charges, n) ==
    IF n = 0 THEN ZeroVec
    ELSE LET rest == fieldAt(currentPoint, charges, n - 1)
             term == chargeField(currentPoint, charges[n])
         IN  Vec(NAdd(rest.x, term.x), NAdd(rest.y, term.y), NAdd(rest.z, term.z))

\* the weak-field test never firing
fieldTooWeakNever(fieldMagnitude) == FALSE

fieldTooWeak(fieldMagnitude) == NLt(fieldMagnitude, minFieldMagnitude)

\* the step along the field itself instead of its direction
nextPointAlongField(currentPoint, field, fieldMagnitude, stepSize) ==
    Vec(NAdd(currentPoint.x, NMul(field.x, stepSize)),
        NAdd(currentPoint.y, NMul(field.y, stepSize)),
        NAdd(currentPoint.z, NMul(field.z, stepSize)))

\* currentPoint.clone().add(direction.multiplyScalar(stepSize))
nextPointOf(currentPoint, field, fieldMagnitude, stepSize) ==
    LET direction == Vec(NDiv(field.x, fieldMagnitude),
                         NDiv(field.y, fieldMagnitude),
                         NDiv(field.z, fieldMagnitude))
    IN  Vec(NAdd(currentPoint.x, NMul(direction.x, stepSize)),
            NAdd(currentPoint.y, NMul(direction.y, stepSize)),
            NAdd(currentPoint.z, NMul(direction.z, stepSize)))

\* the proximity test never firing
tooCloseNever(nextPoint, charges) == FALSE

tooClose(nextPoint, charges) ==
    \E c \in 1..Len(charges) :
        NLt(distanceTo(nextPoint, charges[c].position), tooCloseDistance)

outOfBounds(nextPoint) ==
    NGt(NAbs(nextPoint.x), maxExtent) \/ NGt(NAbs(nextPoint.y), maxExtent)

\* the state of a call on entry to the loop
fieldLineEntry(startPoint, charges, maxSteps, stepSize) ==
    [pc |-> "loop", startPoint |-> startPoint, charges |-> charges,
     maxSteps |-> maxSteps, stepSize |-> stepSize,
     points |-> <<startPoint>>, step |-> 0, field |-> ZeroVec, exit |-> "none"]

\* lines 23-41: the loop condition and, if it holds, the field at the
\* current point; exit records which way the loop was left
fieldLineEvaluate(fl) ==
    IF fl.step >= fl.maxSteps
    THEN [fl EXCEPT !.pc = "returned", !.exit = "maxSteps"]
    ELSE [fl EXCEPT !.pc = "step",
                    !.field = fieldAt(fl.points[Len(fl.points)], fl.charges,
                                      Len(fl.charges))]

\* lines 44-59: normalise the field, step along it, test the next point and
\* append it
fieldLineAdvance(fl) ==
    LET currentPoint == fl.points[Len(fl.points)]
        fieldMagnitude == NSqrt(NAdd(NAdd(NMul(fl.field.x, fl.field.x),
                                          NMul(fl.field.y, fl.field.y)),
                                     NMul(fl.field.z, fl.field.z)))
        nextPoint == nextPointOf(currentPoint, fl.field, fieldMagnitude, fl.stepSize)
    IN  IF fieldTooWeak(fieldMagnitude)
        THEN [fl EXCEPT !.pc = "returned", !.exit = "weakField"]
        ELSE IF tooClose(nextPoint, fl.charges)
        THEN [fl EXCEPT !.pc = "returned", !.exit = "tooClose"]
        ELSE IF outOfBounds(nextPoint)
        THEN [fl EXCEPT !.pc = "returned", !.exit = "outOfBounds"]
        ELSE [fl EXCEPT !.pc = "loop", !.points = Append(@, nextPoint),
                        !.step = @ + 1]

fieldLineStep(fl) ==
    IF fl.pc = "loop" THEN fieldLineEvaluate(fl) ELSE fieldLineAdvance(fl)

RECURSIVE runFieldLine(_)
runFieldLine(fl) == IF fl.pc = "returned" THEN fl ELSE runFieldLine(fieldLineStep(fl))

\* the array calculateFieldLine returns
calculateFieldLine(startPoint, charges, maxSteps, stepSize) ==
    runFieldLine(fieldLineEntry(startPoint, charges, maxSteps, stepSize)).points

\* calculateFieldLine is called
CalculateFieldLine(startPoint, charges, maxSteps, stepSize) ==
    /\ fieldLine.pc = "idle"
    /\ fieldLine' = fieldLineEntry(startPoint, charges, maxSteps, stepSize)
    /\ UNCHANGED <<objects, pc, i, j, collisions, examined, call, tunnel, wave,
                 spacetime, trails, fieldGroup, coil, qrng>>

\* the loop tests its condition and sums the field, or returns
FieldLineEvaluate ==
    /\ fieldLine.pc = "loop"
    /\ fieldLine' = fieldLineEvaluate(fieldLine)
    /\ UNCHANGED <<objects, pc, i, j, collisions, examined, call, tunnel, wave,
                 spacetime, trails, fieldGroup, coil, qrng>>

\* the loop steps along the field and appends the next point, or returns
FieldLineAdvance ==
    /\ fieldLine.pc = "step"
    /\ fieldLine' = fieldLineAdvance(fieldLine)
    /\ UNCHANGED <<objects, pc, i, j, collisions, examined, call, tunnel, wave,
                 spacetime, trails, fieldGroup, coil, qrng>>

\* the point at coordinate p of the named axis
Along(axis, p) ==
    CASE axis = "x" -> Vec(p, Zero, Zero)
      [] axis = "y" -> Vec(Zero, p, Zero)
      [] axis = "z" -> Vec(Zero, Zero, p)

MaxTraceSteps == 3

LineAxes == {"x", "y", "z"}

StartCoords == {Zero, Rat(1, 5), Rat(1, 2)}

ChargeCoords == {Int2Num(-1), Zero, One}

ChargeValues == {Int2Num(-1), Zero, One}

StepSizes == {DefaultStepSize, Rat(1, 2)}

\* the lists of at most two charges on the axis
ChargeLists(axis) ==
    LET cs == {Charge(Along(axis, c), q) : c \in ChargeCoords, q \in ChargeValues}
    IN  {<<>>} \cup {<<a>> : a \in cs} \cup {<<a, b>> : a \in cs, b \in cs}

NextFieldLine ==
    \/ /\ fieldLine.pc = "idle"
       /\ \E axis \in LineAxes, s \in StartCoords, maxSteps \in 0..MaxTraceSteps,
             stepSize \in StepSizes :
            \E charges \in ChargeLists(axis) :
               CalculateFieldLine(Along(axis, s), charges, maxSteps, stepSize)
    \/ FieldLineEvaluate
    \/ FieldLineAdvance

InitFieldLine ==
    /\ objects = <<>>
    /\ InitIdle

\* weak fairness of the loop's steps: the loop, once entered, keeps running.
\* FieldLineEvaluate or FieldLineAdvance is enabled exactly when fieldLine.pc
\* is "loop" or "step", and they are the only actions that change fieldLine
\* then, so the condition is written as []<>~ENABLED \/ []<><<step>> with
\* both parts spelled out
FieldLineFair ==
    \/ []<>(fieldLine.pc \notin {"loop", "step"})
    \/ []<><<fieldLine.pc \in {"loop", "step"}>>_fieldLine

SpecFieldLine == InitFieldLine /\ [][NextFieldLine]_vars /\ FieldLineFair

FieldLineShape ==
    fieldLine.pc # "idle" =>
        /\ Len(fieldLine.points) >= 1
        /\ Len(fieldLine.points) <= fieldLine.maxSteps + 1
        /\ fieldLine.points[1] = fieldLine.startPoint
        /\ \A n \in 2..Len(fieldLine.points) :
              distanceTo(fieldLine.points[n], fieldLine.points[n - 1])
                = fieldLine.stepSize

\* C13: the tracer always terminates, and what it returns is a sequence of
\* at least 1 and at most maxSteps + 1 points whose first is the start point
\* and each later one exactly one stepSize away from its predecessor.
C13_TracerTerminates ==
    /\ []FieldLineShape
    /\ (fieldLine.pc \in {"loop", "step"}) ~> (fieldLine.pc = "returned")

\* a trace that ran into the step cap with maxSteps + 1 >= 3 points
C13_Witness ==
    /\ fieldLine.pc = "returned"
    /\ fieldLine.exit = "maxSteps"
    /\ fieldLine.maxSteps >= 2
    /\ Len(fieldLine.points) = fieldLine.maxSteps + 1
    /\ fieldLine.points[2] # fieldLine.points[1]

\* some charge is closer than 0.3 to the point p
NearCharge(p, charges) ==
    \E c \in 1..Len(charges) :
        LET ex == NSub(p.x, charges[c].position.x)
            ey == NSub(p.y, charges[c].position.y)
            ez == NSub(p.z, charges[c].position.z)
        IN  NLt(NAdd(NAdd(NMul(ex, ex), NMul(ey, ey)), NMul(ez, ez)), Rat(9, 100))

CurrentPoint == fieldLine.points[Len(fieldLine.points)]

\* C14 as stated: whenever the current point (the start point included) is
\* within 0.3 of some charge, no further point is appended.
C14_StopsWhenNearCharge ==
    [][(fieldLine.pc \in {"loop", "step"}
          /\ NearCharge(CurrentPoint, fieldLine.charges))
          => fieldLine'.points = fieldLine.points]_vars

\* C14, amended: no appended point lies within 0.3 of any charge, because a
\* step whose next point would do so ends the trace without appending it;
\* a start point within 0.3 of a charge does not by itself end the trace.
C14_NoAppendedPointNearCharge ==
    fieldLine.pc # "idle" =>
        \A n \in 2..Len(fieldLine.points) :
            ~NearCharge(fieldLine.points[n], fieldLine.charges)

\* a trace that starts within 0.3 of a charge, appends a point and is then
\* ended by the proximity test
C14_Witness ==
    /\ fieldLine.pc = "returned"
    /\ fieldLine.exit = "tooClose"
    /\ NearCharge(fieldLine.startPoint, fieldLine.charges)
    /\ Len(fieldLine.points) >= 2

\* the Coulomb field at p of the first n charges that are at least 0.3 away:
\* the sum of k*q*(p - c)/|p - c|^3
RECURSIVE FarField(_, _, _)
FarField(p, charges, n) ==
    IF n = 0 THEN ZeroVec
    ELSE LET rest == FarField(p, charges, n - 1)
             c    == charges[n]
             e    == Vec(NSub(p.x, c.position.x), NSub(p.y, c.position.y),
                         NSub(p.z, c.position.z))
             r    == NSqrt(NAdd(NAdd(NMul(e.x, e.x), NMul(e.y, e.y)), NMul(e.z, e.z)))
             w    == NDiv(c.q, NMul(r, NMul(r, r)))
         IN  IF NGe(r, Rat(3, 10))
             THEN Vec(NAdd(rest.x, NMul(w, e.x)), NAdd(rest.y, NMul(w, e.y)),
                      NAdd(rest.z, NMul(w, e.z)))
             ELSE rest

\* C16: whenever the field has been evaluated, a charge closer than 0.3 to the
\* current point (distance 0 included) contributes nothing, the other
\* charges are summed, and no component is NaN or infinite.
C16_FloorOnDistance ==
    fieldLine.pc = "step" =>
        /\ fieldLine.field
             = FarField(CurrentPoint, fieldLine.charges, Len(fieldLine.charges))
        /\ IsFinite(fieldLine.field.x) /\ IsFinite(fieldLine.field.y)
        /\ IsFinite(fieldLine.field.z)

\* the field at a point that coincides with a charged charge is the non-zero
\* field of the other charge
C16_Witness ==
    /\ fieldLine.pc = "step"
    /\ \E c \in 1..Len(fieldLine.charges) :
          /\ fieldLine.charges[c].position = CurrentPoint
          /\ fieldLine.charges[c].q # Zero
    /\ fieldLine.field # ZeroVec

AllChargesAtStart ==
    \A c \in 1..Len(fieldLine.charges) :
        fieldLine.charges[c].position = fieldLine.startPoint

\* C17: if every charge coincides with the start point, the tracer returns
\* the sequence that consists of the start point only.
C17_AllChargesAtStart ==
    (fieldLine.pc = "returned" /\ AllChargesAtStart)
        => fieldLine.points = <<fieldLine.startPoint>>

\* two charged charges on the start point, and room for steps
C17_Witness ==
    /\ fieldLine.pc = "returned"
    /\ Len(fieldLine.charges) = 2
    /\ AllChargesAtStart
    /\ \A c \in 1..2 : fieldLine.charges[c].q # Zero
    /\ fieldLine.maxSteps >= 1
    /\ fieldLine.exit = "weakField"
    /\ fieldLine.points = <<fieldLine.startPoint>>

RemoveAt(seq, c) == SubSeq(seq, 1, c - 1) \o SubSeq(seq, c + 1, Len(seq))

\* C18: a charge with q = 0 is inert: the returned sequence is the one
\* returned for the same call without that charge.
C18_ZeroChargeInert ==
    fieldLine.pc = "returned" =>
        \A c \in 1..Len(fieldLine.charges) :
            fieldLine.charges[c].q = Zero =>
                fieldLine.points
                  = calculateFieldLine(fieldLine.startPoint,
                                       RemoveAt(fieldLine.charges, c),
                                       fieldLine.maxSteps, fieldLine.stepSize)

----------------------------------------------------------------------------
(* The seeds of the field lines: the effect of ElectricFieldVisualization
   starts numLines lines on a circle of radius 0.5 around each charge.  Of
   the 16 angles i/16 turns, the multiples of 1/8 turn (even i) have a
   cosine and a sine in {0, 1, -1, sqrt(2)/2, -sqrt(2)/2}. *)

numLines == 16

startRadius == Rat(1, 2)

\* Math.cos and Math.sin of (line / numLines) * 2 * pi, for an even line
CosOfLine(line) ==
    CASE line \in {0}      -> One
      [] line \in {2, 14}  -> Num(1, 2, 2)
      [] line \in {4, 12}  -> Zero
      [] line \in {6, 10}  -> Num(-1, 2, 2)
      [] line \in {8}      -> Int2Num(-1)

SinOfLine(line) == CosOfLine((line + 12) % numLines)

seedPoint(charge, line) ==
    Vec(NAdd(charge.position.x, NMul(startRadius, CosOfLine(line))),
        NAdd(charge.position.y, NMul(startRadius, SinOfLine(line))),
        OrDefault(charge.position.z, Zero))

\* the effect traces the line of one seed of a charge that is alone
TraceSeed(charge, line) ==
    CalculateFieldLine(seedPoint(charge, line), <<charge>>,
                       DefaultMaxSteps, DefaultStepSize)

SeedLines == {line \in 0..(numLines - 1) : line % 2 = 0}

\* isolated positive charges: k*q is 1 or 100, at the origin or at (-6, 0, 0)
IsolatedCharges ==
    {Charge(IVec(x, 0, 0), Int2Num(q)) : x \in {-6, 0}, q \in {1, 100}}

\* the diagonal seeds are taken around the origin only, where the points of
\* the line keep the form (n/d)*sqrt(2)
NextSeeds ==
    \/ /\ fieldLine.pc = "idle"
       /\ \E charge \in IsolatedCharges, line \in SeedLines :
             /\ (line % 4 = 0 \/ charge.position = ZeroVec)
             /\ TraceSeed(charge, line)
    \/ FieldLineEvaluate
    \/ FieldLineAdvance

SpecSeeds == InitFieldLine /\ [][NextSeeds]_vars /\ FieldLineFair

\* C15: the line of a seed near an isolated positive charge, with the default
\* maxSteps and stepSize, ends because the next point leaves the bounding
\* box (never by absorption or by the step cap), and every appended point is
\* strictly farther from the charge than the one before it (stated of the
\* newest point of every state, which covers every appended point).
C15_IsolatedChargeEscapes ==
    /\ fieldLine.pc = "returned" => fieldLine.exit = "outOfBounds"
    /\ (fieldLine.pc # "idle" /\ Len(fieldLine.points) >= 2) =>
          LET n == Len(fieldLine.points)
          IN  NGt(distanceTo(fieldLine.points[n], fieldLine.charges[1].position),
                  distanceTo(fieldLine.points[n - 1], fieldLine.charges[1].position))

----------------------------------------------------------------------------
(* Wave interference: calculateInterference of WaveInterferenceVisualization.

   Angles are measured in turns (1 turn = 2*pi), so the phase
   2*pi*(distance/wavelength - frequency*time) + source.phase is the number
   distance/wavelength - frequency*time + source.phase of turns.  The inputs
   are chosen so that every phase is a multiple of a quarter turn, where the
   sine and the cosine are 0, 1 or -1. *)

\* the number of quarter turns of an angle, reduced to 0..3
QuarterOf(turns) ==
    IF turns.d \in {1, 2, 4} /\ turns.s = 1
    THEN (turns.n * (4 \div turns.d)) % 4
    ELSE CHOOSE q \in {} : TRUE

\* Math.sin and Math.cos
NSin(turns) ==
    IF ~IsFinite(turns) THEN NaN
    ELSE CASE QuarterOf(turns) = 0 -> Zero
           [] QuarterOf(turns) = 1 -> One
           [] QuarterOf(turns) = 2 -> Zero
           [] QuarterOf(turns) = 3 -> Int2Num(-1)

NCos(turns) ==
    IF ~IsFinite(turns) THEN NaN
    ELSE CASE QuarterOf(turns) = 0 -> One
           [] QuarterOf(turns) = 1 -> Zero
           [] QuarterOf(turns) = 2 -> Int2Num(-1)
           [] QuarterOf(turns) = 3 -> Zero

WaveSource(position, amplitude, wavelength, frequency, phase) ==
    [position |-> position, amplitude |-> amplitude, wavelength |-> wavelength,
     frequency |-> frequency, phase |-> phase]

sourceDistance(x, y, source) ==
    LET dx == NSub(x, source.position.x)
        dy == NSub(y, source.position.y)
    IN  NSqrt(NAdd(NMul(dx, dx), NMul(dy, dy)))

sourcePhase(x, y, source, time) ==
    NAdd(NSub(NDiv(sourceDistance(x, y, source), source.wavelength),
              NMul(source.frequency, time)),
         OrDefault(source.phase, Zero))

amplitudeAtPoint(x, y, source) ==
    NDiv(source.amplitude,
         NAdd(One, NMul(sourceDistance(x, y, source), Rat(1, 10))))

\* the first forEach: totalAmplitude over the first n sources
RECURSIVE totalAmplitude(_, _, _, _, _)
totalAmplitude(x, y, sources, time, n) ==
    IF n = 0 THEN Zero
    ELSE NAdd(totalAmplitude(x, y, sources, time, n - 1),
              NMul(amplitudeAtPoint(x, y, sources[n]),
                   NSin(sourcePhase(x, y, sources[n], time))))

\* the second forEach: realPart and imagPart over the first n sources
RECURSIVE realPart(_, _, _, _, _)
realPart(x, y, sources, time, n) ==
    IF n = 0 THEN Zero
    ELSE NAdd(realPart(x, y, sources, time, n - 1),
              NMul(amplitudeAtPoint(x, y, sources[n]),
                   NCos(sourcePhase(x, y, sources[n], time))))

RECURSIVE imagPart(_, _, _, _, _)
imagPart(x, y, sources, time, n) ==
    IF n = 0 THEN Zero
    ELSE NAdd(imagPart(x, y, sources, time, n - 1),
              NMul(amplitudeAtPoint(x, y, sources[n]),
                   NSin(sourcePhase(x, y, sources[n], time))))

\* calculateInterference returning the single-source displacement unsquared
calculateInterferenceUnsquared(x, y, sources, time) ==
    LET amplitude == totalAmplitude(x, y, sources, time, Len(sources))
        re        == realPart(x, y, sources, time, Len(sources))
        im        == imagPart(x, y, sources, time, Len(sources))
    IN  [amplitude |-> amplitude,
         intensity |-> IF Len(sources) > 1
                       THEN NAdd(NMul(re, re), NMul(im, im))
                       ELSE amplitude]

calculateInterference(x, y, sources, time) ==
    LET amplitude == totalAmplitude(x, y, sources, time, Len(sources))
        re        == realPart(x, y, sources, time, Len(sources))
        im        == imagPart(x, y, sources, time, Len(sources))
    IN  [amplitude |-> amplitude,
         intensity |-> IF Len(sources) > 1
                       THEN NAdd(NMul(re, re), NMul(im, im))
                       ELSE NMul(amplitude, amplitude)]

\* the effect evaluates the pattern at one vertex of the mesh
CalculateInterference(x, y, sources, time) ==
    /\ wave = NoWave
    /\ wave' = [op |-> "done", x |-> x, y |-> y, sources |-> sources,
                time |-> time,
                result |-> calculateInterference(x, y, sources, time)]
    /\ UNCHANGED <<objects, pc, i, j, collisions, examined, call, tunnel, fieldLine,
                 spacetime, trails, fieldGroup, coil, qrng>>

MaxAmplitude == 2

WavePoints == {<<0, 0>>, <<3, 0>>, <<0, 4>>, <<3, 4>>}

WaveTimes == {Zero, Rat(1, 4)}

WaveSources ==
    {WaveSource([x |-> Int2Num(sx), y |-> Zero], Int2Num(a), Int2Num(l),
                Int2Num(f), ph) :
        sx \in {0, 3}, a \in 0..MaxAmplitude, l \in {1, 4}, f \in {0, 1},
        ph \in {Zero, Rat(1, 4)}}

WaveSourceLists ==
    {<<>>} \cup {<<a>> : a \in WaveSources}
           \cup {<<a, b>> : a \in WaveSources, b \in WaveSources}

NextWave ==
    /\ wave = NoWave
    /\ \E p \in WavePoints, time \in WaveTimes, sources \in WaveSourceLists :
          CalculateInterference(Int2Num(p[1]), Int2Num(p[2]), sources, time)

InitWave ==
    /\ objects = <<>>
    /\ InitIdle

SpecWave == InitWave /\ [][NextWave]_vars

\* C19: a source of amplitude 0 is inert: amplitude and intensity are those
\* of the same call without that source, for every list it is added to (a
\* list of exactly one source included).
C19_ZeroAmplitudeInert ==
    wave.op = "done" =>
        \A c \in 1..Len(wave.sources) :
            wave.sources[c].amplitude = Zero =>
                wave.result
                  = calculateInterference(wave.x, wave.y,
                                          RemoveAt(wave.sources, c), wave.time)

\* C20: for exactly one source the amplitude is the distance-attenuated
\* amplitude of the source at the point and the intensity is its square; for
\* no source both are 0.
C20_SingleSourceIntensity ==
    wave.op = "done" =>
        /\ Len(wave.sources) = 1 =>
              LET a == NDiv(wave.sources[1].amplitude,
                            NAdd(One, NDiv(sourceDistance(wave.x, wave.y,
                                                          wave.sources[1]),
                                           Int2Num(10))))
              IN  /\ wave.result.amplitude = a
                  /\ wave.result.intensity = NMul(a, a)
        /\ Len(wave.sources) = 0 =>
              /\ wave.result.amplitude = Zero
              /\ wave.result.intensity = Zero

\* C21: the intensity returned by calculateInterference is non-negative for
\* every point, time and source list, and the attenuated amplitude
\* amplitude / (1 + 0.1 * distance) of every source of amplitude >= 0 is
\* non-negative.
C21_IntensityNonNegative ==
    wave.op = "done" =>
        /\ NGe(wave.result.intensity, Zero)
        /\ \A c \in 1..Len(wave.sources) :
              NGe(wave.sources[c].amplitude, Zero) =>
                  NGe(amplitudeAtPoint(wave.x, wave.y, wave.sources[c]), Zero)

\* a one-source call whose displacement is negative and whose intensity is
\* positive
C21_Witness ==
    /\ wave.op = "done"
    /\ Len(wave.sources) = 1
    /\ NLt(wave.result.amplitude, Zero)
    /\ NGt(wave.result.intensity, Zero)

----------------------------------------------------------------------------
(* The Lorentz factor: RelativityFormulas.gamma of physicsFormulas.js and the
   gamma of SpacetimeDiagramVisualization, driven by the velocity slider of
   the Spacetime Diagrams page.

   Numbers are IEEE binary64.  The one rounding that decides a comparison
   here is modelled: for 0 < |beta| <= 2^-27 the square is at most 2^-54,
   half the distance from 1 to the double below it, so 1 - beta * beta
   rounds (to nearest, ties to even) to 1.  The other inputs are far from
   that range and computed exactly. *)

\* 1 - beta * beta without the square
oneMinusBetaNoSquare(beta) ==
    NSub(One, beta)

\* 1 - beta * beta
oneMinusBetaSquared(beta) ==
    IF IsFinite(beta) /\ beta.s = 1 /\ beta.n # 0
           /\ Abs(beta.n) <= beta.d \div 134217728
    THEN One
    ELSE NSub(One, NMul(beta, beta))

\* const gamma = 1 / Math.sqrt(1 - beta * beta)
gammaOfBeta(beta) ==
    NDiv(One, NSqrt(oneMinusBetaSquared(beta)))

\* RelativityFormulas.gamma(velocity, c)
gamma(velocity, c) ==
    LET beta == NDiv(velocity, c)
    IN  gammaOfBeta(beta)

\* the default c = 3e8 of RelativityFormulas.gamma
defaultC == Int2Num(300000000)

\* SpacetimeDiagramVisualization: beta = velocity, c normalised to 1
diagramGamma(velocity) ==
    gammaOfBeta(velocity)

\* a call of RelativityFormulas.gamma; the function has no throw statement
Gamma(velocity, c) ==
    /\ spacetime.op = "page"
    /\ spacetime' = [spacetime EXCEPT
                        !.call = [op |-> "gamma", velocity |-> velocity,
                                  c |-> c, threw |-> FALSE,
                                  result |-> gamma(velocity, c)]]
    /\ UNCHANGED <<objects, pc, i, j, collisions, examined, call, tunnel,
                   fieldLine, wave, trails, fieldGroup, coil, qrng>>

\* the velocity slider of the page: onChange(parseFloat(e.target.value)),
\* then the diagram renders with the new velocity
SetVelocity(v) ==
    /\ spacetime.op = "page"
    /\ spacetime' = [spacetime EXCEPT !.velocity = v,
                                      !.gamma = diagramGamma(v)]
    /\ UNCHANGED <<objects, pc, i, j, collisions, examined, call, tunnel,
                   fieldLine, wave, trails, fieldGroup, coil, qrng>>

\* the values of a range input with min 0, max 0.99 and step 0.01
MaxSliderStep == 99

SliderValues == {Rat(n, 100) : n \in 0..MaxSliderStep}

\* velocities in m/s handed to gamma with the default c: at rest, walking
\* pace, and 0.5, 0.6, 0.8, 1 and 2 times the speed of light
GammaSpeeds == {0, 1, 2, 150000000, 180000000, 240000000, 300000000, 600000000}

GammaVelocities == {Int2Num(v) : v \in GammaSpeeds} \cup {Int2Num(-v) : v \in GammaSpeeds}

NextGamma ==
    /\ spacetime.op = "page"
    /\ \/ \E v \in SliderValues : SetVelocity(v)
       \/ \E velocity \in GammaVelocities : Gamma(velocity, defaultC)

\* useState(0.5), rendered once
InitGamma ==
    /\ objects = <<>>
    /\ pc = "idle"
    /\ i = 0
    /\ j = 0
    /\ collisions = <<>>
    /\ examined = <<>>
    /\ call = NoCall
    /\ tunnel = NoTunnel
    /\ fieldLine = NoFieldLine
    /\ wave = NoWave
    /\ spacetime = [op |-> "page", velocity |-> Rat(1, 2),
                    gamma |-> diagramGamma(Rat(1, 2)), call |-> NoCall]
    /\ trails = NoTrails
    /\ fieldGroup = NoFieldGroup
    /\ coil = NoCoil
    /\ qrng = NoQRNG

SpecGamma == InitGamma /\ [][NextGamma]_vars

BetaOf(callRecord) == NDiv(callRecord.velocity, callRecord.c)

\* C22: a call of gamma with |beta| >= 1 reports an error (it does not return
\* Infinity, NaN or a clamped value), and the beta of the page is always
\* strictly inside (-1, 1).
C22_DomainError ==
    /\ spacetime.call.op = "gamma" =>
          (NGe(NAbs(BetaOf(spacetime.call)), One) => spacetime.call.threw)
    /\ NLt(NAbs(spacetime.velocity), One)

\* |beta| of a velocity handed to gamma with the default c
AbsBeta(velocity) == NAbs(NDiv(velocity, defaultC))

sliderStep == Rat(1, 100)

----------------------------------------------------------------------------
(* Motion trails: the trailPositions state of ProjectileVisualization and
   the trailPointsRef of MotionTrail.

   Two set-ups are explored.  In "projectile" the MotionTrail is the child
   of ProjectileVisualization (maxLength 150, mounted while showMotionTrail
   and isRunning hold) and the projectile is at x = n in the n-th frame of
   the running simulation (it rests while the simulation is paused).  In
   "direct" a MotionTrail is mounted by itself with a small maxLength and
   is handed arbitrary position arrays. *)

\* newTrail.slice(-150), maxLength={150}
trailLimit == 150

\* array.slice(-n)
sliceLast(seq, n) ==
    IF Len(seq) <= n THEN seq ELSE SubSeq(seq, Len(seq) - n + 1, Len(seq))

\* the updater given to setTrailPositions
trailUpdater(prev, position) ==
    LET newTrail == Append(prev, [x |-> position.x, y |-> position.y,
                                  z |-> position.z])
    IN  sliceLast(newTrail, trailLimit)

\* the effect of MotionTrail that never shifts
motionTrailEffectNoShift(trailPoints, positions, maxLength) ==
    IF Len(positions) = 0 THEN trailPoints
    ELSE Append(trailPoints, positions[Len(positions)])

\* the effect of MotionTrail on [positions, maxLength, color]: push the
\* latest position, shift once when over maxLength
motionTrailEffect(trailPoints, positions, maxLength) ==
    IF Len(positions) = 0 THEN trailPoints
    ELSE LET latestPosition == positions[Len(positions)]
             pushed         == Append(trailPoints, latestPosition)
         IN  IF Len(pushed) > maxLength THEN Tail(pushed) ELSE pushed

\* the position prop of the projectile in frame n
positionAt(n) == [x |-> n, y |-> 0, z |-> 0]

MaxFrames == 153

\* useFrame of ProjectileVisualization, and the effect of the child on the
\* new trailPositions
ProjectileFrame ==
    /\ trails.setup = "projectile"
    /\ trails.frame < MaxFrames
    /\ IF trails.showMotionTrail /\ trails.isRunning
       THEN LET newTrail == trailUpdater(trails.trailPositions,
                                         positionAt(trails.frame + 1))
            IN  trails' = [trails EXCEPT
                             !.frame = @ + 1,
                             !.trailPositions = newTrail,
                             !.trailPoints =
                                 motionTrailEffect(@, newTrail, trails.maxLength)]
       ELSE trails' = trails
    /\ UNCHANGED <<objects, pc, i, j, collisions, examined, call, tunnel,
                   fieldLine, wave, spacetime, fieldGroup, coil, qrng>>

\* the isRunning prop changes: the child MotionTrail is unmounted, or mounted
\* with an empty trailPointsRef and its effect runs on the kept trailPositions
SetRunning(isRunning) ==
    /\ trails.setup = "projectile"
    /\ isRunning # trails.isRunning
    /\ trails' = [trails EXCEPT
                     !.isRunning = isRunning,
                     !.mounted = trails.showMotionTrail /\ isRunning,
                     !.trailPoints =
                         IF trails.showMotionTrail /\ isRunning
                         THEN motionTrailEffect(<<>>, trails.trailPositions,
                                                trails.maxLength)
                         ELSE <<>>]
    /\ UNCHANGED <<objects, pc, i, j, collisions, examined, call, tunnel,
                   fieldLine, wave, spacetime, fieldGroup, coil, qrng>>

MaxTrailUpdates == 5

\* a MotionTrail mounted by itself is rendered with a new positions array
SetPositions(positions) ==
    /\ trails.setup = "direct"
    /\ trails.frame < MaxTrailUpdates
    /\ trails' = [trails EXCEPT
                     !.frame = @ + 1,
                     !.trailPositions = positions,
                     !.trailPoints =
                         motionTrailEffect(@, positions, trails.maxLength)]
    /\ UNCHANGED <<objects, pc, i, j, collisions, examined, call, tunnel,
                   fieldLine, wave, spacetime, fieldGroup, coil, qrng>>

\* ... or with a new color: the effect runs again on the same positions
SetColor ==
    /\ trails.setup = "direct"
    /\ trails.frame < MaxTrailUpdates
    /\ trails' = [trails EXCEPT
                     !.frame = @ + 1,
                     !.trailPoints =
                         motionTrailEffect(@, trails.trailPositions,
                                           trails.maxLength)]
    /\ UNCHANGED <<objects, pc, i, j, collisions, examined, call, tunnel,
                   fieldLine, wave, spacetime, fieldGroup, coil, qrng>>

MaxTrailLength == 3

TrailCoords == {0, 1}

TrailPositionLists ==
    {<<>>} \cup {<<positionAt(a)>> : a \in TrailCoords}
           \cup {<<positionAt(a), positionAt(b)>> : a \in TrailCoords, b \in TrailCoords}

NextTrails ==
    \/ ProjectileFrame
    \/ \E isRunning \in BOOLEAN : SetRunning(isRunning)
    \/ /\ trails.setup = "direct"
       /\ \E positions \in TrailPositionLists : SetPositions(positions)
    \/ SetColor

\* useState([]) and an empty trailPointsRef; the effect has run once on the
\* first positions
InitTrails ==
    /\ objects = <<>>
    /\ pc = "idle"
    /\ i = 0
    /\ j = 0
    /\ collisions = <<>>
    /\ examined = <<>>
    /\ call = NoCall
    /\ tunnel = NoTunnel
    /\ fieldLine = NoFieldLine
    /\ wave = NoWave
    /\ spacetime = NoSpacetime
    /\ \/ \E showMotionTrail \in BOOLEAN, isRunning \in BOOLEAN :
             trails = [setup |-> "projectile", frame |-> 0,
                       showMotionTrail |-> showMotionTrail,
                       isRunning |-> isRunning,
                       mounted |-> showMotionTrail /\ isRunning,
                       maxLength |-> trailLimit,
                       trailPositions |-> <<>>, trailPoints |-> <<>>]
       \/ \E maxLength \in 1..MaxTrailLength, positions \in TrailPositionLists :
             trails = [setup |-> "direct", frame |-> 0,
                       showMotionTrail |-> TRUE, isRunning |-> TRUE,
                       mounted |-> TRUE, maxLength |-> maxLength,
                       trailPositions |-> positions,
                       trailPoints |-> motionTrailEffect(<<>>, positions, maxLength)]
    /\ fieldGroup = NoFieldGroup
    /\ coil = NoCoil
    /\ qrng = NoQRNG

SpecTrails == InitTrails /\ [][NextTrails]_vars

\* the buffer after one more point: the old points in their order, without
\* the oldest when the buffer was full, then the new point
Evicted(old, limit, point) ==
    Append(IF Len(old) >= limit THEN Tail(old) ELSE old, point)

TrailsBounded ==
    /\ Len(trails.trailPoints) <= trails.maxLength
    /\ trails.setup = "projectile" => Len(trails.trailPositions) <= trailLimit

TrailsFifo ==
    /\ (trails.setup = "projectile" /\ trails'.trailPositions # trails.trailPositions)
          => \E n \in 1..MaxFrames + 1 :
                trails'.trailPositions = Evicted(trails.trailPositions, trailLimit,
                                                 positionAt(n))
    /\ (trails.mounted /\ trails'.mounted /\ trails'.trailPoints # trails.trailPoints)
          => \E n \in 0..MaxFrames + 1 :
                trails'.trailPoints = Evicted(trails.trailPoints, trails.maxLength,
                                              positionAt(n))

\* C24: the point list of MotionTrail never holds more than maxLength points
\* and trailPositions never more than 150; a step that changes a buffer
\* appends one point and, when the buffer was full, drops exactly the oldest
\* one, the others keeping their order.
C24_BoundedFifo == []TrailsBounded /\ [][TrailsFifo]_vars

\* both buffers of the projectile are full and have dropped their oldest
\* points
C24_Witness ==
    /\ trails.setup = "projectile"
    /\ trails.frame > trailLimit
    /\ Len(trails.trailPositions) = trailLimit
    /\ Len(trails.trailPoints) = trailLimit
    /\ trails.trailPositions[1] # positionAt(1)
    /\ trails.trailPoints[1] # positionAt(1)

----------------------------------------------------------------------------
(* The field-line group of ElectricFieldVisualization: the effect on
   [charges, showFieldLines] that clears the group and traces 16 lines per
   charge.

   The effect is taken one seed at a time.  Of the points calculateFieldLine
   returns for a seed the effect only tests the length, so the result is an
   input here: 1 point (the loop of the tracer broke in its first round) or
   2 points.  A line of the group is recorded with the number of its points
   and, as history, the index of its charge and the charge list it was
   traced from. *)

\* if (points.length < 2) continue, never taken
keepsLineAlways(points) ==
    TRUE

\* if (points.length < 2) continue
keepsLine(points) ==
    ~(points < 2)

\* the component is rendered with new props and the effect starts:
\* groupRef.current.clear(), fieldLinesRef.current = [], and the early return
FieldLinesEffect(charges, showFieldLines) ==
    /\ fieldGroup.pc = "idle"
    /\ <<charges, showFieldLines>> # <<fieldGroup.charges, fieldGroup.showFieldLines>>
    /\ fieldGroup' = [fieldGroup EXCEPT
                         !.charges = charges,
                         !.showFieldLines = showFieldLines,
                         !.lines = <<>>,
                         !.chargeIndex = 1,
                         !.line = 0,
                         !.pc = IF ~showFieldLines \/ Len(charges) = 0
                                THEN "idle" ELSE "loop"]
    /\ UNCHANGED <<objects, pc, i, j, collisions, examined, call, tunnel,
                   fieldLine, wave, spacetime, trails, coil, qrng>>

\* one round of the inner loop: the line of seed fieldGroup.line of charge
\* fieldGroup.chargeIndex has the given number of points
FieldLinesSeed(points) ==
    /\ fieldGroup.pc = "loop"
    /\ LET last     == fieldGroup.line + 1 = numLines
           finished == last /\ fieldGroup.chargeIndex = Len(fieldGroup.charges)
           newLine  == [charge |-> fieldGroup.chargeIndex,
                        from |-> fieldGroup.charges, points |-> points]
       IN  fieldGroup' = [fieldGroup EXCEPT
                            !.lines = IF keepsLine(points)
                                      THEN Append(@, newLine) ELSE @,
                            !.line = IF last THEN 0 ELSE @ + 1,
                            !.chargeIndex = IF last /\ ~finished THEN @ + 1 ELSE @,
                            !.pc = IF finished THEN "idle" ELSE "loop"]
    /\ UNCHANGED <<objects, pc, i, j, collisions, examined, call, tunnel,
                   fieldLine, wave, spacetime, trails, coil, qrng>>

MaxGroupCharges == 2

GroupCharges == {Charge(IVec(-1, 0, 0), One), Charge(IVec(1, 0, 0), Int2Num(-1))}

GroupChargeLists ==
    UNION {[1..n -> GroupCharges] : n \in 0..MaxGroupCharges}

LinePoints == {1, 2}

NextFieldGroup ==
    \/ /\ fieldGroup.pc = "idle"
       /\ \E charges \in GroupChargeLists, showFieldLines \in BOOLEAN :
             FieldLinesEffect(charges, showFieldLines)
    \/ \E points \in LinePoints : FieldLinesSeed(points)

\* the default props charges = [] and showFieldLines = true, after the
\* effect of the first render (which clears the empty group and returns)
InitFieldGroup ==
    /\ objects = <<>>
    /\ pc = "idle"
    /\ i = 0
    /\ j = 0
    /\ collisions = <<>>
    /\ examined = <<>>
    /\ call = NoCall
    /\ tunnel = NoTunnel
    /\ fieldLine = NoFieldLine
    /\ wave = NoWave
    /\ spacetime = NoSpacetime
    /\ trails = NoTrails
    /\ fieldGroup = [pc |-> "idle", charges |-> <<>>, showFieldLines |-> TRUE,
                     lines |-> <<>>, chargeIndex |-> 1, line |-> 0]
    /\ coil = NoCoil
    /\ qrng = NoQRNG

SpecFieldGroup == InitFieldGroup /\ [][NextFieldGroup]_vars

\* the lines of the group traced for charge c
LinesOf(c) == {n \in 1..Len(fieldGroup.lines) : fieldGroup.lines[n].charge = c}

\* C25: when the effect has run, the group holds only lines traced from the
\* current charge list, at most 16 for each of its charges, each of at least
\* 2 points, and no line when showFieldLines is false or there is no charge;
\* lines of an earlier charge list are gone as soon as the effect starts.
C25_GroupRebuilt ==
    /\ \A n \in 1..Len(fieldGroup.lines) :
          /\ fieldGroup.lines[n].from = fieldGroup.charges
          /\ fieldGroup.lines[n].charge \in 1..Len(fieldGroup.charges)
          /\ fieldGroup.lines[n].points >= 2
    /\ \A c \in 1..Len(fieldGroup.charges) : Cardinality(LinesOf(c)) <= numLines
    /\ (~fieldGroup.showFieldLines \/ Len(fieldGroup.charges) = 0) =>
          (fieldGroup.pc = "idle" /\ fieldGroup.lines = <<>>)

\* the effect has finished for two charges: all 16 lines of the first are in
\* the group and some of the second were skipped
C25_Witness ==
    /\ fieldGroup.pc = "idle"
    /\ fieldGroup.showFieldLines
    /\ Len(fieldGroup.charges) = 2
    /\ Cardinality(LinesOf(1)) = numLines
    /\ Cardinality(LinesOf(2)) \in 1..(numLines - 1)

----------------------------------------------------------------------------
(* Properties of the collision normal and of the symmetry of the test *)

\* the point of a body the normal is measured from: the centre of a circle,
\* the point of a box closest to the centre of the circle it is tested with
ContactPoint(obj, other) ==
    IF ShapeOf(obj) = "circle" THEN Vec(obj.position.x, obj.position.y, Zero)
    ELSE LET size == IF obj.size = NoSize THEN DefaultSize ELSE obj.size
         IN  Vec(NMax(obj.position.x,
                      NMin(other.position.x, NAdd(obj.position.x, size.width))),
                 NMax(obj.position.y,
                      NMin(other.position.y, NAdd(obj.position.y, size.height))),
                 Zero)

FlatNormal == Vec(call.collision.normal.x, call.collision.normal.y, Zero)

\* C26: the normal returned by checkCollision(obj1, obj2) points from obj1
\* toward obj2, for two circles and for a circle and a box in either order,
\* and the call with the arguments swapped returns the negated normal.
C26_NormalFromFirstToSecond ==
    (Checked /\ ~Boxes) =>
        /\ NGe(Dot(FlatNormal, VSub(ContactPoint(Obj2, Obj1), ContactPoint(Obj1, Obj2))),
               Zero)
        /\ checkCollision(Obj2, Obj1).normal
              = VScale(Int2Num(-1), call.collision.normal)

\* C27: checkCollision(a, b).isColliding equals checkCollision(b, a).isColliding
\* for every pair of bodies and every combination of shapes, so the array
\* <<a, b>> and the array <<b, a>> give checkAllCollisions the same colliding
\* pair.
C27_Symmetric ==
    Checked => call.collision.isColliding = checkCollision(Obj2, Obj1).isColliding

\* a box has been tested against a colliding circle, the box as obj1
C27_Witness ==
    /\ Checked
    /\ ShapeOf(Obj1) = "box"
    /\ ShapeOf(Obj2) = "circle"
    /\ Obj1.size # NoSize
    /\ call.collision.isColliding
    /\ call.collision.distance # Zero

\* C28: resolveCollision applied to the checkCollision result of two colliding
\* boxes returns the input velocities, for any velocities, masses and
\* restitutions.
C28_BoxBoxNoChange ==
    (Resolved /\ Boxes) =>
        /\ call.result.velocity1 = Obj1.velocity
        /\ call.result.velocity2 = Obj2.velocity

----------------------------------------------------------------------------
(* FaradaysLawVisualization: the animation loop of the magnet and the coil. *)
(* Angles are held in units of pi (internalAngle = angle / pi), so that    *)
(* 2 * Math.PI is the number 2.                                            *)

\* x % y as JavaScript computes it: the remainder takes the sign of x
NRem(x, y) ==
    IF ~IsFinite(x) \/ IsNaN(y) \/ y.n = 0 THEN NaN
    ELSE IF y.d = 0 THEN x
    ELSE LET q == NDiv(x, y)
             t == Sgn(q.n) * (Abs(q.n) \div q.d)
         IN  NSub(x, NMul(y, Int2Num(t)))

\* null, the default of the props magnetX and angle
Null == [null |-> TRUE]

magnetBound == Int2Num(120)

TwoPi == Int2Num(2)

\* the updater of setInternalMagnetX without the two clamping branches
moveMagnetUnclamped(x, direction, magnetSpeed, dt) ==
    LET next == NAdd(x, NMul(NMul(NMul(Int2Num(direction), magnetSpeed), Int2Num(60)), dt))
    IN  [x |-> next, direction |-> direction]

\* the updater of setInternalMagnetX, with directionRef.current as direction
moveMagnet(x, direction, magnetSpeed, dt) ==
    LET next == NAdd(x, NMul(NMul(NMul(Int2Num(direction), magnetSpeed), Int2Num(60)), dt))
    IN  IF NGt(next, magnetBound) THEN [x |-> magnetBound, direction |-> -1]
        ELSE IF NLt(next, NNeg(magnetBound)) THEN [x |-> NNeg(magnetBound), direction |-> 1]
        ELSE [x |-> next, direction |-> direction]

\* the updater of setInternalAngle
rotateCoil(a, rotationSpeed, dt) ==
    NRem(NAdd(a, NMul(NMul(rotationSpeed, dt), TwoPi)), TwoPi)

\* the animation effect after a render: the clean-up of the previous run has
\* cancelled the pending frame, and a new frame is requested unless magnetX
\* or angle is controlled from outside
animationEffect(externalMagnetX, externalAngle) ==
    IF externalMagnetX # Null \/ externalAngle # Null THEN "none" ELSE "requested"

\* one call of animate by requestAnimationFrame, dt seconds after the last
Animate(dt) ==
    /\ coil.raf = "requested"
    /\ coil' = IF coil.mode = "coil"
               THEN LET m == moveMagnet(coil.internalMagnetX, coil.direction,
                                        coil.magnetSpeed, dt)
                    IN  [coil EXCEPT !.internalMagnetX = m.x, !.direction = m.direction,
                                     !.dt = dt]
               ELSE [coil EXCEPT !.internalAngle = rotateCoil(@, coil.rotationSpeed, dt),
                                 !.dt = dt]
    /\ UNCHANGED <<objects, pc, i, j, collisions, examined, call, tunnel, fieldLine, wave,
                   spacetime, trails, fieldGroup, qrng>>

\* a mode button
SetMode(mode) ==
    /\ coil' = [coil EXCEPT !.mode = mode, !.dt = Null,
                            !.raf = animationEffect(coil.externalMagnetX, coil.externalAngle)]
    /\ UNCHANGED <<objects, pc, i, j, collisions, examined, call, tunnel, fieldLine, wave,
                   spacetime, trails, fieldGroup, qrng>>

\* the Magnet Speed slider, rendered in coil mode
SetMagnetSpeed(v) ==
    /\ coil.mode = "coil"
    /\ coil' = [coil EXCEPT !.magnetSpeed = v, !.dt = Null,
                            !.raf = animationEffect(coil.externalMagnetX, coil.externalAngle)]
    /\ UNCHANGED <<objects, pc, i, j, collisions, examined, call, tunnel, fieldLine, wave,
                   spacetime, trails, fieldGroup, qrng>>

\* the Rotation Speed slider, rendered in motor and generator mode
SetRotationSpeed(v) ==
    /\ coil.mode \in {"motor", "generator"}
    /\ coil' = [coil EXCEPT !.rotationSpeed = v, !.dt = Null,
                            !.raf = animationEffect(coil.externalMagnetX, coil.externalAngle)]
    /\ UNCHANGED <<objects, pc, i, j, collisions, examined, call, tunnel, fieldLine, wave,
                   spacetime, trails, fieldGroup, qrng>>

\* the parent renders the component with new props magnetX and angle
SetExternal(externalMagnetX, externalAngle) ==
    /\ coil' = [coil EXCEPT !.externalMagnetX = externalMagnetX,
                            !.externalAngle = externalAngle, !.dt = Null,
                            !.raf = animationEffect(externalMagnetX, externalAngle)]
    /\ UNCHANGED <<objects, pc, i, j, collisions, examined, call, tunnel, fieldLine, wave,
                   spacetime, trails, fieldGroup, qrng>>

CoilModes == {"coil", "motor", "generator"}

\* values of the Magnet Speed slider (0 to 5)
MagnetSpeeds == {Zero, One, Int2Num(5)}

\* values of the Rotation Speed slider (0 to 10)
RotationSpeeds == {Zero, Rat(1, 2), Int2Num(10)}

\* seconds between two frames: none, a sixth of a second, three seconds
FrameTimes == {Zero, Rat(1, 6), Int2Num(3)}

\* values of the props magnetX and angle
ExternalValues == {Null, Zero}

NextCoil ==
    \/ \E dt \in FrameTimes : Animate(dt)
    \/ \E mode \in CoilModes : SetMode(mode)
    \/ \E v \in MagnetSpeeds : SetMagnetSpeed(v)
    \/ \E v \in RotationSpeeds : SetRotationSpeed(v)
    \/ \E x \in ExternalValues, a \in ExternalValues : SetExternal(x, a)

\* the component after its first render with the default props, or with
\* magnetX or angle given
InitCoil ==
    /\ objects = <<>>
    /\ pc = "idle"
    /\ i = 0
    /\ j = 0
    /\ collisions = <<>>
    /\ examined = <<>>
    /\ call = NoCall
    /\ tunnel = NoTunnel
    /\ fieldLine = NoFieldLine
    /\ wave = NoWave
    /\ spacetime = NoSpacetime
    /\ trails = NoTrails
    /\ fieldGroup = NoFieldGroup
    /\ \E x \in ExternalValues, a \in ExternalValues :
          coil = [mode |-> "coil", magnetSpeed |-> One, rotationSpeed |-> One,
                  internalMagnetX |-> NNeg(magnetBound), internalAngle |-> Zero,
                  direction |-> 1, externalMagnetX |-> x, externalAngle |-> a,
                  raf |-> animationEffect(x, a), dt |-> Null]
    /\ qrng = NoQRNG

SpecCoil == InitCoil /\ [][NextCoil]_vars

\* the position the magnet would reach in a frame of dt seconds, unclamped
RawNext(dt) ==
    NAdd(coil.internalMagnetX,
         NMul(NMul(NMul(Int2Num(coil.direction), coil.magnetSpeed), Int2Num(60)), dt))

CoilInRange ==
    /\ NGe(coil.internalMagnetX, NNeg(magnetBound))
    /\ NGe(magnetBound, coil.internalMagnetX)
    /\ NGe(coil.internalAngle, Zero)
    /\ NLt(coil.internalAngle, TwoPi)
    /\ coil.raf = "requested" =>
          (coil.externalMagnetX = Null /\ coil.externalAngle = Null)

\* a step that is a call of animate (every other handler resets dt)
FrameStep ==
    coil'.dt # Null =>
        /\ coil.externalMagnetX = Null /\ coil.externalAngle = Null
        /\ (coil.mode = "coil" /\ NGt(RawNext(coil'.dt), magnetBound)) =>
              (coil'.internalMagnetX = magnetBound /\ coil'.direction = -coil.direction)
        /\ (coil.mode = "coil" /\ NLt(RawNext(coil'.dt), NNeg(magnetBound))) =>
              (coil'.internalMagnetX = NNeg(magnetBound)
                 /\ coil'.direction = -coil.direction)

----------------------------------------------------------------------------
(* The QRNG page: handleFetch, handleQuickFetch, handleFetchHex and the     *)
(* request of fetchQuantumRandom each of them awaits.  A response is       *)
(* identified by the number of the click that asked for it, and the time   *)
(* stamp of a history entry is the number of clicks made when it is added. *)

\* prev.slice(0, 9)
sliceFirst(seq, n) == SubSeq(seq, 1, IF Len(seq) < n THEN Len(seq) ELSE n)

\* the updater of setHistory without the slice
historyUpdaterNoSlice(prev, entry) == <<entry>> \o prev

\* the updater of setHistory
historyUpdater(prev, entry) == <<entry>> \o sliceFirst(prev, 9)

\* the arguments with which a handler reaches fetchQuantumRandom
fetchArguments(handler, config) ==
    IF handler = "handleFetch" THEN [length |-> config.length, type |-> config.type]
    ELSE IF handler = "handleQuickFetch" THEN [length |-> 1, type |-> config.type]
    ELSE [length |-> config.length, type |-> "hex16"]

\* the parameter validation of fetchQuantumRandom
validLength(length) == ~(length < 1 \/ length > 1024)

\* the history entry a handler adds for the response data
historyEntry(handler, config, data, now) ==
    [timestamp |-> now,
     length    |-> IF handler = "handleQuickFetch" THEN 1 ELSE config.length,
     type      |-> IF handler = "handleFetchHex" THEN "hex16" ELSE config.type,
     data      |-> data]

\* clicks followed in one behaviour
MaxClicks == 4

\* a click on one of the three buttons, which are disabled while loading:
\* the handler runs up to its await
Click(handler) ==
    /\ ~qrng.loading
    /\ qrng.clicks < MaxClicks
    /\ qrng' = [qrng EXCEPT !.loading = TRUE, !.error = Null,
                            !.clicks = @ + 1,
                            !.pending = [handler |-> handler, config |-> qrng.config,
                                         response |-> qrng.clicks + 1]]
    /\ UNCHANGED <<objects, pc, i, j, collisions, examined, call, tunnel, fieldLine, wave,
                   spacetime, trails, fieldGroup, coil>>

\* the awaited request settles and the handler runs to its end; outcome is
\* what fetch delivers: "ok", "http" (response.ok false) or "network".  The
\* field outcome keeps how the last request ended ("invalid": rejected by
\* the validation before any request was sent)
Settle(outcome) ==
    /\ qrng.pending # Null
    /\ LET handler == qrng.pending.handler
           config  == qrng.pending.config
           args    == fetchArguments(handler, config)
           data    == qrng.pending.response
       IN  IF ~validLength(args.length)
           THEN qrng' = [qrng EXCEPT !.error = [message |-> "Length must be between 1 and 1024"],
                                     !.loading = FALSE, !.pending = Null,
                                     !.outcome = "invalid"]
           ELSE IF outcome = "ok"
           THEN qrng' = [qrng EXCEPT !.results = [data |-> data, success |-> TRUE],
                                     !.history = historyUpdater(@,
                                         historyEntry(handler, config, data, qrng.clicks)),
                                     !.loading = FALSE, !.pending = Null,
                                     !.outcome = "ok"]
           ELSE qrng' = [qrng EXCEPT !.error = [message |-> IF outcome = "http"
                                                             THEN "HTTP error! status"
                                                             ELSE "Failed to fetch"],
                                     !.loading = FALSE, !.pending = Null,
                                     !.outcome = outcome]
    /\ UNCHANGED <<objects, pc, i, j, collisions, examined, call, tunnel, fieldLine, wave,
                   spacetime, trails, fieldGroup, coil>>

\* the Number of Values input
SetLength(length) ==
    /\ qrng.op = "page"
    /\ qrng' = [qrng EXCEPT !.config.length = IF length = 0 THEN 1 ELSE length]
    /\ UNCHANGED <<objects, pc, i, j, collisions, examined, call, tunnel, fieldLine, wave,
                   spacetime, trails, fieldGroup, coil>>

\* parsed values of the Number of Values input
ConfigLengths == {0, 10, 2000}

Outcomes == {"ok", "http", "network"}

Handlers == {"handleFetch", "handleQuickFetch", "handleFetchHex"}

\* successful Generate clicks made before the behaviour starts
Backlog == {0, 8}

NextQRNG ==
    \/ \E handler \in Handlers : Click(handler)
    \/ \E outcome \in Outcomes : Settle(outcome)
    \/ \E length \in ConfigLengths : SetLength(length)

defaultConfig == [length |-> 10, type |-> "uint16"]

\* the page as first rendered, or after eight clicks on Generate that all
\* succeeded with the default configuration
InitQRNG ==
    /\ objects = <<>>
    /\ pc = "idle"
    /\ i = 0
    /\ j = 0
    /\ collisions = <<>>
    /\ examined = <<>>
    /\ call = NoCall
    /\ tunnel = NoTunnel
    /\ fieldLine = NoFieldLine
    /\ wave = NoWave
    /\ spacetime = NoSpacetime
    /\ trails = NoTrails
    /\ fieldGroup = NoFieldGroup
    /\ coil = NoCoil
    /\ \E n \in Backlog :
          qrng = [op |-> "page", loading |-> FALSE, error |-> Null,
                  results |-> IF n = 0 THEN Null ELSE [data |-> 0, success |-> TRUE],
                  history |-> [idx \in 1..n |->
                                  historyEntry("handleFetch", defaultConfig,
                                               1 - idx, 1 - idx)],
                  config |-> defaultConfig, pending |-> Null, clicks |-> 0,
                  outcome |-> "none"]

SpecQRNG == InitQRNG /\ [][NextQRNG]_vars

HistoryBounded ==
    /\ Len(qrng.history) <= 10
    /\ \A a, b \in DOMAIN qrng.history :
          a < b => qrng.history[a].timestamp > qrng.history[b].timestamp
    /\ qrng.loading <=> (qrng.pending # Null)

\* a step in which the request in flight settles
SettleStep ==
    (qrng.pending # Null /\ qrng'.pending = Null) =>
        /\ ~qrng'.loading
        /\ qrng'.outcome # "ok" =>
              /\ qrng'.history = qrng.history
              /\ qrng'.results = qrng.results
              /\ qrng'.error # Null
        /\ qrng'.outcome = "ok" =>
              /\ qrng'.history[1].data = qrng.pending.response
              /\ qrng'.error = Null

\* C30: however the clicks on the three fetch buttons and the outcomes of their
\* requests follow one another, the history never holds more than 10 entries
\* and lists them newest first, a fetch that fails adds no entry, leaves
\* results as they were and sets error, and loading is false as soon as the
\* handler has run to its end.
C30_HistoryAndLoading == []HistoryBounded /\ [][SettleStep]_vars

\* three fetches have succeeded on top of eight earlier ones, so that the
\* oldest entry has been dropped, and a fourth has just failed
C30_Witness ==
    /\ Len(qrng.history) = 10
    /\ qrng.history[1].timestamp = 3
    /\ qrng.history[10].timestamp = -6
    /\ qrng.outcome = "http"
    /\ qrng.error # Null
    /\ ~qrng.loading

====
